---- MODULE Spec2Model ----
(***************************************************************************)
(* A model of the Judy trie of judy64nb.c: the slab arena, the tagged node *)
(* layouts, lookup, insertion with promote / split / span split, ordered   *)
(* traversal, deletion and key reconstruction.                             *)
(*                                                                         *)
(* Node memory is modelled byte by byte (little-endian build, the          *)
(* BYTE_ORDER != BIG_ENDIAN branches): mem maps every byte address handed  *)
(* out by the arena to its content.  A slot is the 8 bytes at its address; *)
(* every address and cell value of the model is below 2^24, so a slot is   *)
(* read from its three low bytes.  A judyvalue (one key digit) is a tuple  *)
(* of JUDY_key_size bytes, most significant first, so that the 64-bit      *)
(* numeric comparison of the code is the lexicographic one of the tuples.  *)
(***************************************************************************)
EXTENDS Integers, Sequences, FiniteSets, TLC

\* ------------------------------------------------------------------------
\* Build-time configuration (judy64nb.h) and the constants of judy64nb.c
\* ------------------------------------------------------------------------
JUDY_key_size == 8
JUDY_slot_size == 8
JUDY_key_mask == 7
JUDY_span_bytes == 28
JUDY_cache_line == 8
JUDY_seg == 65536

JUDY_radix == 0
JUDY_1 == 1
JUDY_2 == 2
JUDY_4 == 3
JUDY_8 == 4
JUDY_16 == 5
JUDY_32 == 6
JUDY_span == 7
JUDY_max == JUDY_32

\* the linear size classes whose blocks back radix and span nodes
JUDY_radix_equiv == JUDY_8
JUDY_span_equiv == JUDY_4

\* sizeof(Judy) without its cursor frames, sizeof(JudyStack), sizeof(JudySeg)
SizeofJudy == 112
SizeofJudyStack == 16
SizeofJudySeg == 16

NULL == 0

JudySize(type) ==
    CASE type = JUDY_radix -> JUDY_slot_size * 16
      [] type = JUDY_1 -> JUDY_slot_size + JUDY_key_size
      [] type = JUDY_2 -> 2 * JUDY_slot_size + 2 * JUDY_key_size
      [] type = JUDY_4 -> 4 * JUDY_slot_size + 4 * JUDY_key_size
      [] type = JUDY_8 -> 8 * JUDY_slot_size + 8 * JUDY_key_size
      [] type = JUDY_16 -> 16 * JUDY_slot_size + 16 * JUDY_key_size
      [] type = JUDY_32 -> 32 * JUDY_slot_size + 32 * JUDY_key_size
      [] type = JUDY_span -> JUDY_span_bytes + JUDY_slot_size

\* ------------------------------------------------------------------------
\* Integer helpers for the bit operations of the code
\* ------------------------------------------------------------------------
\* F applied to x: binds the result of a call that is used more than once
With(x, F(_)) == F(x)

Min(a, b) == IF a < b THEN a ELSE b
Max(a, b) == IF a < b THEN b ELSE a
SetMin(S) == CHOOSE x \in S : \A y \in S : x <= y
SetMax(S) == CHOOSE x \in S : \A y \in S : y <= x

\* amt |= n - 1, amt++ when amt & (n - 1)
RoundUp(amt, n) == IF amt % n # 0 THEN (amt \div n + 1) * n ELSE amt
\* next & 0x07 and next & JUDY_mask
TypeOf(next) == next % 8
AddrOf(next) == next - (next % 8)
\* (off | JUDY_key_mask) + 1
NextDigit(off) == (off \div JUDY_key_size + 1) * JUDY_key_size
\* JUDY_key_size - (off & JUDY_key_mask)
KeySize(off) == JUDY_key_size - (off % JUDY_key_size)

\* ------------------------------------------------------------------------
\* Memory
\* ------------------------------------------------------------------------
Byte == 0 .. 255
SegAddr(i) == i * JUDY_seg

RdSlot(m, a) == m[a] + 256 * m[a + 1] + 65536 * m[a + 2]

WrSlot(m, a, v) ==
    [m EXCEPT ![a] = v % 256, ![a + 1] = (v \div 256) % 256,
              ![a + 2] = (v \div 65536) % 256, ![a + 3] = 0, ![a + 4] = 0,
              ![a + 5] = 0, ![a + 6] = 0, ![a + 7] = 0]

\* a memset that leaves the block as it was
MemKeep(m, p, n) == m

\* memset(p, 0, n)
MemZero(m, p, n) == [a \in (p .. p + n - 1) \cap DOMAIN m |-> 0] @@ m

\* a move that leaves the bytes where they are
MoveKeep(m, dst, src, n) == m

\* memcpy / memmove(dst, src, n) inside node memory (memmove semantics: the
\* source bytes are read before any byte is written)
MemMove(m, dst, src, n) ==
    [a \in (dst .. dst + n - 1) \cap DOMAIN m |-> m[src + (a - dst)]] @@ m

\* ------------------------------------------------------------------------
\* Arena.  A machine state s is [mem, segs, judy, fault]: the node memory,
\* the segments (segs[i].next is the bump cursor of the segment at
\* SegAddr(i), segs[i].seg the segment allocated before it), the handles
\* (judy[j] for the original j = 1 and a clone j = 2) and the trap flag.
\* A handle is [addr, reuse, seg, level, max, depth, stack]; its root slot
\* is the slot at addr (root[1] is the first member of the handle).
\* ------------------------------------------------------------------------
Frame0 == [next |-> 0, off |-> 0, slot |-> 0]

\* an open that leaves no frame for the zero terminator of a string key
OpenTight(max, depth) ==
    LET mx == IF depth # 0 THEN JUDY_key_size * depth ELSE max
        amt == RoundUp(SizeofJudy + mx * SizeofJudyStack, JUDY_cache_line)
        nxt == (JUDY_seg - (SegAddr(1) % JUDY_cache_line)) - amt
        addr == SegAddr(1) + nxt
    IN  [mem |-> [a \in addr .. addr + JUDY_slot_size - 1 |-> 0],
         segs |-> <<[next |-> nxt, seg |-> NULL]>>,
         judy |-> <<[addr |-> addr,
                     reuse |-> [t \in 0 .. 7 |-> NULL],
                     seg |-> 1,
                     level |-> 0,
                     max |-> mx,
                     depth |-> depth,
                     stack |-> [l \in 0 .. mx |-> Frame0]]>>,
         fault |-> FALSE,
         ev |-> {}]

\* judy_open(max, depth): the state after construction
judy_open(max, depth) ==
    LET mx == IF depth # 0 THEN JUDY_key_size * depth ELSE max + 1
        amt == RoundUp(SizeofJudy + mx * SizeofJudyStack, JUDY_cache_line)
        nxt == (JUDY_seg - (SegAddr(1) % JUDY_cache_line)) - amt
        addr == SegAddr(1) + nxt
    IN  [mem |-> [a \in addr .. addr + JUDY_slot_size - 1 |-> 0],
         segs |-> <<[next |-> nxt, seg |-> NULL]>>,
         judy |-> <<[addr |-> addr,
                     reuse |-> [t \in 0 .. 7 |-> NULL],
                     seg |-> 1,
                     level |-> 0,
                     max |-> mx,
                     depth |-> depth,
                     stack |-> [l \in 0 .. mx |-> Frame0]]>>,
         fault |-> FALSE,
         ev |-> {}]

\* an access through a pointer that is NULL or outside the arena traps
Trap(s) == [s EXCEPT !.fault = TRUE]

\* ev records what the current operation carried out: "promote", "split",
\* "splitspan", "breakdown" when judy_alloc cut a larger free block, and
\* "nomem" when judy_alloc returned NULL
Note(s, e) == [s EXCEPT !.ev = @ \cup {e}]

\* the size class a node type is allocated from
EquivType(type) ==
    IF type = JUDY_radix THEN JUDY_radix_equiv
    ELSE IF type = JUDY_span THEN JUDY_span_equiv
    ELSE type

\* a break-down that lists the fragment of each class one class size too far
RECURSIVE BreakDownFar(_, _, _, _, _)
BreakDownFar(m, reuse, block, idx, type) ==
    IF idx > type
    THEN BreakDownFar(WrSlot(m, block + JudySize(idx), 0),
                      [reuse EXCEPT ![idx - 1] = block + JudySize(idx)],
                      block, idx - 1, type)
    ELSE [mem |-> m, reuse |-> reuse]

\* judy_alloc, "break down available larger block": block of class idx is cut
\* into the returned block and one block for each class type .. idx - 1
RECURSIVE BreakDown(_, _, _, _, _)
BreakDown(m, reuse, block, idx, type) ==
    IF idx > type
    THEN BreakDown(WrSlot(m, block + JudySize(idx - 1), 0),
                   [reuse EXCEPT ![idx - 1] = block + JudySize(idx - 1)],
                   block, idx - 1, type)
    ELSE [mem |-> m, reuse |-> reuse]

\* judy_alloc, "generate additional free blocks to fill up to cache line size"
RECURSIVE FillCacheLine(_, _, _, _, _)
FillCacheLine(m, reuse, top, idx, amt) ==
    IF amt % JUDY_cache_line # 0
    THEN FillCacheLine(WrSlot(m, top - 2 * amt, 0),
                       [reuse EXCEPT ![idx] = top - 2 * amt],
                       top, idx + 1, 2 * amt)
    ELSE [mem |-> m, reuse |-> reuse, amt |-> amt]

\* judy_alloc(judy, type); mallocOk is the outcome of malloc(JUDY_seg) should
\* the head segment be exhausted.  Returns [s, ptr].
judy_alloc(s, j, type0, mallocOk) ==
    LET h == s.judy[j]
        type == EquivType(type0)
        amt == RoundUp(JudySize(type), 8)
        larger == {i \in type + 1 .. JUDY_max : h.reuse[i] # NULL}
    IN  IF h.seg = NULL THEN [s |-> Note(s, "nomem"), ptr |-> NULL]
        ELSE IF h.reuse[type] # NULL
        THEN LET block == h.reuse[type]
             IN  [s |-> [s EXCEPT !.judy[j].reuse[type] = RdSlot(s.mem, block),
                                  !.mem = MemZero(s.mem, block, amt)],
                  ptr |-> block]
        ELSE IF type >= JUDY_1 /\ larger # {}
        THEN LET idx == SetMin(larger)
                 block == h.reuse[idx]
                 bd == BreakDown(s.mem, [h.reuse EXCEPT ![idx] = RdSlot(s.mem, block)],
                                 block, idx, type)
             IN  [s |-> Note([s EXCEPT !.judy[j].reuse = bd.reuse,
                                       !.mem = MemZero(bd.mem, block, amt)], "breakdown"),
                  ptr |-> block]
        ELSE LET min == Max(amt, JUDY_cache_line)
                 grow == s.segs[h.seg].next < min + SizeofJudySeg
                 n == Len(s.segs) + 1
                 segs1 == IF grow
                          THEN Append(s.segs,
                                      [next |-> JUDY_seg - (SegAddr(n) % JUDY_cache_line),
                                       seg |-> h.seg])
                          ELSE s.segs
                 seg == IF grow THEN n ELSE h.seg
                 top == SegAddr(seg) + segs1[seg].next
                 rtn == top - amt
                 fresh == [a \in rtn .. top - 1 |-> 0] @@ s.mem
                 fc == FillCacheLine(fresh, h.reuse, top, type, amt)
             IN  IF grow /\ ~mallocOk THEN [s |-> Note(s, "nomem"), ptr |-> NULL]
                 ELSE [s |-> [s EXCEPT !.segs = [segs1 EXCEPT ![seg].next = @ - fc.amt],
                                      !.judy[j].seg = seg,
                                      !.judy[j].reuse = fc.reuse,
                                      !.mem = MemZero(fc.mem, rtn, JudySize(type))],
                       ptr |-> rtn]

\* a free that drops the block in place of listing it for reuse
FreeLost(s, j, block, type0) == s

\* judy_free(judy, block, type)
judy_free(s, j, block, type0) ==
    LET type == EquivType(type0)
    IN  [s EXCEPT !.mem = WrSlot(s.mem, block, s.judy[j].reuse[type]),
                  !.judy[j].reuse[type] = block]

\* ------------------------------------------------------------------------
\* Key codec.  A key buffer is a sequence of bytes (buff[i] is K[i + 1]); in
\* fixed mode it holds depth digits of JUDY_key_size bytes each, stored
\* little-endian.  A judyvalue is a JUDY_key_size-tuple, most significant
\* byte first.
\* ------------------------------------------------------------------------
\* srcdigit: src[depth], the judyvalue at digit index depth of the buffer
SrcDigit(K, depth) ==
    [i \in 1 .. JUDY_key_size |-> K[depth * JUDY_key_size + (JUDY_key_size - i) + 1]]

\* value & JudyMask[keysize]
JudyMask(value, keysize) ==
    [i \in 1 .. JUDY_key_size |-> IF i <= JUDY_key_size - keysize THEN 0 ELSE value[i]]

\* do { value <<= 8; if (off < max) value |= buff[off]; } while (++off & JUDY_key_mask)
StringDigit(K, max, off) ==
    LET keysize == KeySize(off)
    IN  [i \in 1 .. JUDY_key_size |->
           IF i <= JUDY_key_size - keysize THEN 0
           ELSE LET o == off + (i - (JUDY_key_size - keysize) - 1)
                IN  IF o < max THEN K[o + 1] ELSE 0]

\* the digit value a linear node is searched for (judy_slot, judy_cell)
DigitValue(h, K, max, off, depth) ==
    IF h.depth # 0 THEN JudyMask(SrcDigit(K, depth), KeySize(off))
    ELSE StringDigit(K, max, off)

\* *(judyvalue *)(base + slot * keysize) & JudyMask[keysize]
LinKey(m, base, slot, keysize) ==
    [i \in 1 .. JUDY_key_size |->
       IF i <= JUDY_key_size - keysize THEN 0
       ELSE m[base + slot * keysize + (JUDY_key_size - i)]]

\* memcpy(base + slot * keysize, &value, keysize)
WrLinKey(m, base, slot, keysize, value) ==
    [a \in (base + slot * keysize .. base + (slot + 1) * keysize - 1) \cap DOMAIN m |->
       value[JUDY_key_size - (a - (base + slot * keysize))]] @@ m

\* a comparison of the partial keys as they lie in memory, least significant
\* byte first, in place of the numeric one
KeyLeqBytes(test, value) ==
    LET d == {i \in 1 .. JUDY_key_size : test[i] # value[i]}
    IN  d = {} \/ test[SetMax(d)] < value[SetMax(d)]

\* test <= value on judyvalues
KeyLeq(test, value) ==
    LET d == {i \in 1 .. JUDY_key_size : test[i] # value[i]}
    IN  d = {} \/ test[SetMin(d)] < value[SetMin(d)]

\* number of partial keys of a linear node of this size at this key width
LinCnt(size, keysize) == size \div (JUDY_slot_size + keysize)

\* &node[-slot - 1]
SlotAddr(node, slot) == node - JUDY_slot_size * (slot + 1)

\* "find slot > key": while (slot--) { test = ...; if (test <= value) break; }
\* the greatest slot whose partial key is <= value, -1 when there is none
FindSlot(m, base, cnt, keysize, value) ==
    LET c == {i \in 0 .. cnt - 1 : KeyLeq(LinKey(m, base, i, keysize), value)}
    IN  IF c = {} THEN 0 - 1 ELSE SetMax(c)

\* "is this a leaf?" after a linear node matched value
LinLeaf(h, value, depth) ==
    (h.depth = 0 /\ value[JUDY_key_size] = 0) \/ (h.depth # 0 /\ depth = h.depth)

\* "leaf?" after a radix pair consumed byte slot
RadixLeaf(h, slot, depth) ==
    (h.depth = 0 /\ slot = 0) \/ (h.depth # 0 /\ depth = h.depth)

\* (src[depth] >> ((JUDY_key_size - (off & JUDY_key_mask)) * 8)) & 0xff, off
\* already incremented.  For off on a digit boundary the shift count is 64,
\* which the shift instructions reduce modulo 64: the low byte.
SrcByte(K, depth, off) ==
    LET o == off % JUDY_key_size
    IN  SrcDigit(K, depth)[IF o = 0 THEN JUDY_key_size ELSE o]

\* a comparison that only a key filling the whole span passes
SpanEqualFull(m, base, K, off, tst) ==
    tst = JUDY_span_bytes /\ \A i \in 0 .. tst - 1 : m[base + i] = K[off + i + 1]

\* strncmp(base, buff + off, tst) == 0
SpanEqual(m, base, K, off, tst) ==
    LET d == {i \in 0 .. tst - 1 : m[base + i] # K[off + i + 1] \/ m[base + i] = 0}
    IN  d = {} \/ m[base + SetMin(d)] = K[off + SetMin(d) + 1]

\* ------------------------------------------------------------------------
\* Cursor
\* ------------------------------------------------------------------------
\* a push that also clears the reuse lists of the handle
PushClear(h, next, off) ==
    LET l == IF h.level < h.max THEN h.level + 1 ELSE h.level
    IN  [h EXCEPT !.level = l, !.stack[l].next = next, !.stack[l].off = off,
                  !.reuse = [t \in DOMAIN h.reuse |-> NULL]]

\* if (level < max) level++; stack[level].next = next; stack[level].off = off
Push(h, next, off) ==
    LET l == IF h.level < h.max THEN h.level + 1 ELSE h.level
    IN  [h EXCEPT !.level = l, !.stack[l].next = next, !.stack[l].off = off]

\* a cursor frame that keeps the slot it had
SetSlotStale(h, slot) == h

SetSlot(h, slot) == [h EXCEPT !.stack[h.level].slot = slot]

\* ------------------------------------------------------------------------
\* judy_slot: find slot & setup cursor.  Returns [h, ret]: the handle with
\* its cursor and the cell address (NULL when absent).
\* ------------------------------------------------------------------------
RECURSIVE SlotLoop(_, _, _, _, _, _, _)
SlotLoop(m, h0, K, max, next, off, depth) ==
    IF next = 0 THEN [h |-> h0, ret |-> NULL]
    ELSE
    LET h == Push(h0, next, off)
        type == TypeOf(next)
        size == JudySize(type)
        base == AddrOf(next)
    IN  CASE type = JUDY_radix ->
             LET table == base
                 off1 == IF h.depth # 0 THEN off + 1
                         ELSE IF off < max THEN off + 1 ELSE off
                 slot == IF h.depth # 0 THEN SrcByte(K, depth, off1)
                         ELSE IF off < max THEN K[off + 1] ELSE 0
                 h1 == SetSlot(h, slot)
                 outer == RdSlot(m, table + JUDY_slot_size * (slot \div 16))
                 inner == AddrOf(outer)
                 depth1 == IF h.depth # 0 /\ off1 % JUDY_key_size = 0
                           THEN depth + 1 ELSE depth
                 cell == inner + JUDY_slot_size * (slot % 16)
             IN  IF outer = 0 THEN [h |-> h1, ret |-> NULL]
                 ELSE IF RadixLeaf(h, slot, depth1)
                 THEN [h |-> h1, ret |-> IF RdSlot(m, cell) # 0 THEN cell ELSE NULL]
                 ELSE SlotLoop(m, h1, K, max, RdSlot(m, cell), off1, depth1)
          [] type = JUDY_span ->
             LET node == base + JudySize(JUDY_span)
                 cnt == JUDY_span_bytes
                 tst == Min(cnt, max - off)
                 equal == SpanEqual(m, base, K, off, tst)
             IN  IF equal /\ tst < cnt /\ m[base + tst] = 0
                 THEN [h |-> h, ret |-> SlotAddr(node, 0)]
                 ELSE IF equal /\ tst = cnt
                 THEN SlotLoop(m, h, K, max, RdSlot(m, SlotAddr(node, 0)), off + cnt, depth)
                 ELSE [h |-> h, ret |-> NULL]
          [] OTHER ->
             LET node == base + size
                 keysize == KeySize(off)
                 cnt == LinCnt(size, keysize)
                 value == DigitValue(h, K, max, off, depth)
                 depth1 == IF h.depth # 0 THEN depth + 1 ELSE depth
                 off1 == NextDigit(off)
                 slot == FindSlot(m, base, cnt, keysize, value)
                 test == LinKey(m, base, IF slot < 0 THEN 0 ELSE slot, keysize)
                 h1 == SetSlot(h, slot)
             IN  IF test = value
                 THEN IF LinLeaf(h, value, depth1)
                      THEN [h |-> h1, ret |-> SlotAddr(node, slot)]
                      ELSE SlotLoop(m, h1, K, max, RdSlot(m, SlotAddr(node, slot)),
                                    off1, depth1)
                 ELSE [h |-> h1, ret |-> NULL]

judy_slot(m, h, K, max) ==
    SlotLoop(m, [h EXCEPT !.level = 0], K, max, RdSlot(m, h.addr), 0, 0)

\* ------------------------------------------------------------------------
\* judy_key: assemble key from current path.  buf0 is the caller's buffer
\* (its content before the call) and max its size.  Returns [len, buff].
\* ------------------------------------------------------------------------
RECURSIVE BitOr(_, _)
BitOr(a, b) ==
    IF a = 0 THEN b ELSE IF b = 0 THEN a
    ELSE (IF a % 2 = 1 \/ b % 2 = 1 THEN 1 ELSE 0) + 2 * BitOr(a \div 2, b \div 2)

\* a prefix of a byte sequence: up to its first zero byte and at most n bytes
UpToZero(bytes, n) ==
    LET z == {i \in 1 .. Len(bytes) : bytes[i] = 0}
        n0 == IF z = {} THEN Len(bytes) ELSE SetMin(z) - 1
    IN  SubSeq(bytes, 1, Min(n0, n))

RdByte(m, a) == IF a \in DOMAIN m THEN m[a] ELSE 0

\* byte-string mode: out holds buff[0 .. len - 1]
RECURSIVE KeyLoopStr(_, _, _, _, _)
KeyLoopStr(m, h, idx0, out, max) ==
    IF ~(Len(out) < max /\ idx0 + 1 <= h.level) THEN out
    ELSE
    LET idx == idx0 + 1
        next == h.stack[idx].next
        slot == h.stack[idx].slot
        type == TypeOf(next)
        base == AddrOf(next)
        keysize == KeySize(h.stack[idx].off)
        room == max - Len(out)
    IN  CASE type = JUDY_radix ->
             KeyLoopStr(m, h, idx, IF slot = 0 THEN out ELSE Append(out, slot % 256), max)
          [] type = JUDY_span ->
             KeyLoopStr(m, h, idx,
                        out \o UpToZero([i \in 1 .. JUDY_span_bytes |-> RdByte(m, base + i - 1)],
                                        room),
                        max)
          [] OTHER ->
             KeyLoopStr(m, h, idx,
                        out \o UpToZero([i \in 1 .. keysize |->
                                           RdByte(m, base + slot * keysize + keysize - i)],
                                        room),
                        max)

\* fixed mode: dest holds the digits of the caller's buffer as judyvalues
RECURSIVE KeyLoopFix(_, _, _, _, _)
KeyLoopFix(m, h, idx0, len, dest0) ==
    LET max == h.depth * JUDY_key_size
    IN
    IF ~(len < max /\ idx0 + 1 <= h.level) THEN [len |-> len, dest |-> dest0, ended |-> TRUE]
    ELSE
    LET idx == idx0 + 1
        next == h.stack[idx].next
        slot == h.stack[idx].slot
        type == TypeOf(next)
        base == AddrOf(next)
        keysize == KeySize(h.stack[idx].off)
        depth == len \div JUDY_key_size
        dest == IF len % JUDY_key_size = 0
                THEN [dest0 EXCEPT ![depth + 1] = [i \in 1 .. JUDY_key_size |-> 0]]
                ELSE dest0
    IN  CASE type = JUDY_radix ->
             LET len1 == len + 1
                 o == len1 % JUDY_key_size
                 pos == IF o = 0 THEN JUDY_key_size ELSE o
                 dest1 == [dest EXCEPT ![depth + 1][pos] = BitOr(@, slot % 256)]
                 depth1 == IF o = 0 THEN depth + 1 ELSE depth
             IN  IF depth1 < h.depth THEN KeyLoopFix(m, h, idx, len1, dest1)
                 ELSE [len |-> len1, dest |-> dest1, ended |-> FALSE]
          [] type = JUDY_span ->
             \* spans are built in byte-string mode only (judy_cell, !judy->depth)
             KeyLoopFix(m, h, idx, len, dest)
          [] OTHER ->
             LET value == [i \in 1 .. JUDY_key_size |->
                             IF i <= JUDY_key_size - keysize THEN 0
                             ELSE RdByte(m, base + slot * keysize + (JUDY_key_size - i))]
                 dest1 == [dest EXCEPT ![depth + 1] =
                             [i \in 1 .. JUDY_key_size |-> BitOr(@[i], value[i])]]
             IN  IF depth + 1 < h.depth THEN KeyLoopFix(m, h, idx, len + keysize, dest1)
                 ELSE [len |-> len + keysize, dest |-> dest1, ended |-> FALSE]

\* the bytes of a sequence of judyvalues as they lie in the buffer
DigitBytes(dest) ==
    [i \in 1 .. Len(dest) * JUDY_key_size |->
       dest[(i - 1) \div JUDY_key_size + 1][JUDY_key_size - ((i - 1) % JUDY_key_size)]]

judy_key(m, h, buf0, max0) ==
    IF h.depth # 0
    THEN LET r == KeyLoopFix(m, h, 0, 0, [d \in 1 .. h.depth |-> SrcDigit(buf0, d - 1)])
             bytes == DigitBytes(r.dest)
         IN  [len |-> r.len,
              buff |-> IF r.ended /\ r.len < Len(bytes)
                       THEN [bytes EXCEPT ![r.len + 1] = 0] ELSE bytes]
    ELSE LET out == KeyLoopStr(m, h, 0, <<>>, max0 - 1)
         IN  [len |-> Len(out),
              buff |-> out \o <<0>> \o SubSeq(buf0, Len(out) + 2, Len(buf0))]

\* ------------------------------------------------------------------------
\* Traversal.  Each operator returns [h, ret, hang]: the handle with its
\* cursor, the cell address (NULL when absent), and whether the loop of the
\* code would never end (a radix table with no inner table keeps `next`).
\* ------------------------------------------------------------------------
RdSlotSafe(m, a) == IF a \in DOMAIN m THEN RdSlot(m, a) ELSE 0

\* the bytes (slot values 0 .. 255) a radix pair holds a child for
RadixSlots(m, table) ==
    UNION {LET outer == RdSlot(m, table + JUDY_slot_size * g)
           IN  IF outer = 0 THEN {}
               ELSE {16 * g + i : i \in {x \in 0 .. 15 :
                                           RdSlot(m, AddrOf(outer) + JUDY_slot_size * x) # 0}}
           : g \in 0 .. 15}

RadixInner(m, table, slot) == AddrOf(RdSlot(m, table + JUDY_slot_size * (slot \div 16)))

RadixHasInner(m, table) ==
    \E g \in 0 .. 15 : RdSlot(m, table + JUDY_slot_size * g) # 0

\* the leaf test of judy_first / judy_last / judy_nxt / judy_prv on the
\* partial key at slot of a linear node; depth is already incremented
KeyLeaf(m, h, base, slot, keysize, depth) ==
    (h.depth = 0 /\ RdByte(m, base + slot * keysize) = 0)
    \/ (h.depth # 0 /\ depth = h.depth)

\* return first leaf
RECURSIVE judy_first(_, _, _, _, _)
judy_first(m, h0, next, off, depth) ==
    IF next = 0 THEN [h |-> h0, ret |-> NULL, hang |-> FALSE]
    ELSE
    LET h == Push(h0, next, off)
        type == TypeOf(next)
        size == JudySize(type)
        base == AddrOf(next)
    IN  CASE type = JUDY_radix ->
             LET off1 == off + 1
                 depth1 == IF h.depth # 0 /\ off1 % JUDY_key_size = 0
                           THEN depth + 1 ELSE depth
                 found == RadixSlots(m, base)
                 slot == SetMin(found)
                 cell == RadixInner(m, base, slot) + JUDY_slot_size * (slot % 16)
             IN  IF found = {}
                 THEN [h |-> h, ret |-> NULL, hang |-> ~RadixHasInner(m, base)]
                 ELSE IF RadixLeaf(h, slot, depth1)
                 THEN [h |-> SetSlot(h, slot), ret |-> cell, hang |-> FALSE]
                 ELSE judy_first(m, SetSlot(h, slot), RdSlot(m, cell), off1, depth1)
          [] type = JUDY_span ->
             LET node == base + JudySize(JUDY_span)
                 cnt == JUDY_span_bytes
             IN  IF m[base + cnt - 1] = 0
                 THEN [h |-> h, ret |-> SlotAddr(node, 0), hang |-> FALSE]
                 ELSE judy_first(m, h, RdSlot(m, SlotAddr(node, 0)), off + cnt, depth)
          [] OTHER ->
             LET keysize == KeySize(off)
                 node == base + size
                 cnt == LinCnt(size, keysize)
                 occ == {i \in 0 .. cnt - 1 : RdSlot(m, SlotAddr(node, i)) # 0}
                 slot == IF occ = {} THEN cnt ELSE SetMin(occ)
                 depth1 == IF h.depth # 0 THEN depth + 1 ELSE depth
                 h1 == SetSlot(h, slot)
             IN  IF KeyLeaf(m, h, base, slot, keysize, depth1)
                 THEN [h |-> h1, ret |-> SlotAddr(node, slot), hang |-> FALSE]
                 ELSE judy_first(m, h1, RdSlotSafe(m, SlotAddr(node, slot)),
                                 NextDigit(off), depth1)

\* return last leaf cell pointer
RECURSIVE judy_last(_, _, _, _, _)
judy_last(m, h0, next, off, depth) ==
    IF next = 0 THEN [h |-> h0, ret |-> NULL, hang |-> FALSE]
    ELSE
    LET h == Push(h0, next, off)
        type == TypeOf(next)
        size == JudySize(type)
        base == AddrOf(next)
    IN  CASE type = JUDY_radix ->
             LET off1 == off + 1
                 depth1 == IF h.depth # 0 /\ off1 % JUDY_key_size = 0
                           THEN depth + 1 ELSE depth
                 found == RadixSlots(m, base)
                 slot == SetMax(found)
                 inner == RadixInner(m, base, slot)
                 \* the last slot the scan visits when it finds nothing
                 last == IF RdSlot(m, base) # 0 THEN 0 ELSE 15
             IN  IF found = {}
                 THEN [h |-> SetSlot(h, last), ret |-> NULL,
                       hang |-> ~RadixHasInner(m, base)]
                 ELSE IF RadixLeaf(h, slot, depth1)
                 THEN [h |-> SetSlot(h, slot), ret |-> inner, hang |-> FALSE]
                 ELSE judy_last(m, SetSlot(h, slot),
                                RdSlot(m, inner + JUDY_slot_size * (slot % 16)),
                                off1, depth1)
          [] type = JUDY_span ->
             LET node == base + JudySize(JUDY_span)
                 cnt == JUDY_span_bytes
             IN  IF m[base + cnt - 1] = 0
                 THEN [h |-> h, ret |-> SlotAddr(node, 0), hang |-> FALSE]
                 ELSE judy_last(m, h, RdSlot(m, SlotAddr(node, 0)), off + cnt, depth)
          [] OTHER ->
             LET keysize == KeySize(off)
                 node == base + size
                 slot == LinCnt(size, keysize) - 1
                 depth1 == IF h.depth # 0 THEN depth + 1 ELSE depth
                 h1 == SetSlot(h, slot)
             IN  IF KeyLeaf(m, h, base, slot, keysize, depth1)
                 THEN [h |-> h1, ret |-> SlotAddr(node, slot), hang |-> FALSE]
                 ELSE judy_last(m, h1, RdSlot(m, SlotAddr(node, slot)),
                                off + keysize, depth1)

\* judy_end: return last entry
judy_end(m, h) == judy_last(m, [h EXCEPT !.level = 0], RdSlot(m, h.addr), 0, 0)

\* judy_nxt: return next entry
RECURSIVE NxtLoop(_, _)
NxtLoop(m, h) ==
    IF h.level = 0 THEN [h |-> h, ret |-> NULL, hang |-> FALSE]
    ELSE
    LET next == h.stack[h.level].next
        slot0 == h.stack[h.level].slot
        off == h.stack[h.level].off
        keysize == KeySize(off)
        type == TypeOf(next)
        size == JudySize(type)
        depth == off \div JUDY_key_size
        base == AddrOf(next)
        pop == [h EXCEPT !.level = @ - 1]
    IN  CASE type = JUDY_radix ->
             LET depth1 == IF h.depth # 0 /\ (off + 1) % JUDY_key_size = 0
                           THEN depth + 1 ELSE depth
                 found == {s \in RadixSlots(m, base) : s > slot0}
                 slot == SetMin(found)
                 cell == RadixInner(m, base, slot) + JUDY_slot_size * (slot % 16)
             IN  IF found = {} THEN NxtLoop(m, pop)
                 ELSE IF h.depth = 0 \/ depth1 < h.depth
                 THEN judy_first(m, SetSlot(h, slot), RdSlot(m, cell), off + 1, depth1)
                 ELSE [h |-> SetSlot(h, slot), ret |-> cell, hang |-> FALSE]
          [] type = JUDY_span -> NxtLoop(m, pop)
          [] OTHER ->
             LET cnt == LinCnt(size, keysize)
                 node == base + size
                 slot == slot0 + 1
                 depth1 == IF h.depth # 0 THEN depth + 1 ELSE depth
             IN  IF slot < cnt
                 THEN IF KeyLeaf(m, h, base, slot, keysize, depth1)
                      THEN [h |-> SetSlot(h, slot), ret |-> SlotAddr(node, slot),
                            hang |-> FALSE]
                      ELSE judy_first(m, SetSlot(h, slot), RdSlot(m, SlotAddr(node, slot)),
                                      NextDigit(off), depth1)
                 ELSE NxtLoop(m, pop)

judy_nxt(m, h) ==
    IF h.level = 0 THEN judy_first(m, h, RdSlot(m, h.addr), 0, 0)
    ELSE NxtLoop(m, h)

\* judy_prv: return ptr to previous entry
RECURSIVE PrvLoop(_, _)
PrvLoop(m, h) ==
    IF h.level = 0 THEN [h |-> h, ret |-> NULL, hang |-> FALSE]
    ELSE
    LET next == h.stack[h.level].next
        slot == h.stack[h.level].slot
        off == h.stack[h.level].off
        type == TypeOf(next)
        size == JudySize(type)
        depth == off \div JUDY_key_size
        base == AddrOf(next)
        pop == [h EXCEPT !.level = @ - 1]
    IN  CASE type = JUDY_radix ->
             LET depth1 == IF h.depth # 0 /\ (off + 1) % JUDY_key_size = 0
                           THEN depth + 1 ELSE depth
                 found == {s \in RadixSlots(m, base) : s < slot}
                 prev == SetMax(found)
                 inner == RadixInner(m, base, prev)
             IN  IF found = {} THEN PrvLoop(m, [pop EXCEPT !.stack[h.level].slot =
                                                     IF slot > 0 THEN 0 ELSE slot])
                 ELSE IF RadixLeaf(h, prev, depth1)
                 THEN [h |-> SetSlot(h, prev), ret |-> inner, hang |-> FALSE]
                 ELSE judy_last(m, SetSlot(h, prev),
                                RdSlot(m, inner + JUDY_slot_size * (prev % 16)),
                                off + 1, depth1)
          [] type = JUDY_span -> PrvLoop(m, pop)
          [] OTHER ->
             LET node == base + size
                 keysize == KeySize(off)
                 depth1 == IF h.depth # 0 THEN depth + 1 ELSE depth
                 h1 == SetSlot(h, slot - 1)
             IN  IF slot = 0 \/ RdSlotSafe(m, SlotAddr(node, slot - 1)) = 0
                 THEN PrvLoop(m, pop)
                 ELSE IF KeyLeaf(m, h, base, slot - 1, keysize, depth1)
                 THEN [h |-> h1, ret |-> SlotAddr(node, slot - 1), hang |-> FALSE]
                 ELSE judy_last(m, h1, RdSlot(m, SlotAddr(node, slot - 1)),
                                NextDigit(off), depth1)

judy_prv(m, h) ==
    IF h.level = 0 THEN judy_last(m, h, RdSlot(m, h.addr), 0, 0)
    ELSE PrvLoop(m, h)

\* return cell for first key greater than or equal to given key
judy_strt(m, h, K, max) ==
    IF max = 0 THEN judy_first(m, [h EXCEPT !.level = 0], RdSlot(m, h.addr), 0, 0)
    ELSE LET r == judy_slot(m, [h EXCEPT !.level = 0], K, max)
         IN  IF r.ret # NULL THEN [h |-> r.h, ret |-> r.ret, hang |-> FALSE]
             ELSE judy_nxt(m, r.h)

\* ------------------------------------------------------------------------
\* Structural transformations.  When judy_alloc returns NULL the callers use
\* the pointer unchecked: the model carries out the stores that precede the
\* first access through it and then sets fault (the access traps).
\* ------------------------------------------------------------------------
\* a copy that leaves out the child slot at the highest position
CopySlotsShort(m, dstnode, dstpos, srcnode, srcpos, n) ==
    IF n <= 1 THEN m
    ELSE MemMove(m, SlotAddr(dstnode, dstpos + n - 2), SlotAddr(srcnode, srcpos + n - 2),
                 JUDY_slot_size * (n - 1))

\* n child slots, positions srcpos .. srcpos + n - 1 below srcnode, copied to
\* positions dstpos .. dstpos + n - 1 below dstnode
CopySlots(m, dstnode, dstpos, srcnode, srcpos, n) ==
    IF n <= 0 THEN m
    ELSE MemMove(m, SlotAddr(dstnode, dstpos + n - 1), SlotAddr(srcnode, srcpos + n - 1),
                 JUDY_slot_size * n)


\* promote full nodes to next larger size.  Returns [s, ret].
judy_promote(s0, j, next, idx, value, keysize, mallocOk) ==
    With(judy_alloc(s0, j, TypeOf(RdSlot(s0.mem, next)) + 1, mallocOk), LAMBDA a :
    LET old == RdSlot(s0.mem, next)
        base == AddrOf(old)
        type == TypeOf(old) + 1
        node == base + JudySize(type - 1)
        oldcnt == LinCnt(JudySize(type - 1), keysize)
        newcnt == LinCnt(JudySize(type), keysize)
        newbase == a.ptr
        newnode == newbase + JudySize(type)
        m1 == WrSlot(a.s.mem, next, newbase + type)
        \* open up slot at idx
        m2 == MemMove(m1, newbase + (newcnt - oldcnt - 1) * keysize, base, idx * keysize)
        m3 == CopySlots(m2, newnode, newcnt - oldcnt - 1, node, 0, idx)
        \* fill in new node
        m4 == WrLinKey(m3, newbase, idx + newcnt - oldcnt - 1, keysize, value)
        result == SlotAddr(newnode, idx + newcnt - oldcnt - 1)
        \* copy rest of old node
        m5 == MemMove(m4, newbase + (idx + newcnt - oldcnt) * keysize,
                      base + idx * keysize, (oldcnt - idx) * keysize)
        m6 == CopySlots(m5, newnode, idx + newcnt - oldcnt, node, idx, oldcnt - idx)
        h == a.s.judy[j]
        s1 == [a.s EXCEPT !.mem = m6,
                          !.judy[j].stack[h.level].next = RdSlot(m1, next),
                          !.judy[j].stack[h.level].slot = idx + newcnt - oldcnt - 1]
    IN  IF newbase = NULL
        THEN [s |-> Trap([a.s EXCEPT !.mem = m1]), ret |-> NULL]
        ELSE [s |-> Note(judy_free(s1, j, base, type - 1), "promote"), ret |-> result])

\* judy_radix, "is this slot a leaf?"
RadixSplitLeaf(h, key, keysize, depth) ==
    (h.depth = 0 /\ (key = 0 \/ keysize = 0))
    \/ (h.depth # 0 /\ keysize = 0 /\ depth = h.depth)

\* judy_radix, "calculate new node big enough to contain slots"
RadixNodeType(cnt, keysize) ==
    LET fit == {t \in JUDY_1 .. JUDY_max : cnt <= LinCnt(JudySize(t), keysize)}
    IN  IF fit = {} THEN JUDY_max ELSE SetMin(fit)

\* judy_radix, "shorten keys by 1 byte during copy": the cnt keys from
\* position start of the old node go to the top positions of the new one
ShortenKeys(m, base, newcnt, old, start, cnt, keysize) ==
    IF keysize = 0 THEN m
    ELSE [a \in (base + (newcnt - cnt) * keysize .. base + newcnt * keysize - 1)
                  \cap DOMAIN m |->
            m[old + ((a - base) \div keysize - (newcnt - cnt) + start) * (keysize + 1)
                  + ((a - base) % keysize)]] @@ m

\* construct new node for JUDY_radix entry
judy_radix(s0, j, radix, old, start, slot, keysize, key, depth, mallocOk) ==
    LET cnt == slot - start
        outer == radix + JUDY_slot_size * (key \div 16)
        have == AddrOf(RdSlotSafe(s0.mem, outer))
        oldnode == old + JudySize(JUDY_max)
        h == s0.judy[j]
        type == RadixNodeType(cnt, keysize)
        size == JudySize(type)
        newcnt == LinCnt(size, keysize)
    IN  IF radix = NULL THEN Trap(s0)
        ELSE
        \* the inner radix table and the state once it is in place
        With(IF have # NULL THEN [s |-> s0, ptr |-> have]
             ELSE With(judy_alloc(s0, j, JUDY_radix, mallocOk), LAMBDA a :
                       [s |-> [a.s EXCEPT !.mem = WrSlot(@, outer, a.ptr + JUDY_radix)],
                        ptr |-> a.ptr]),
             LAMBDA t :
        LET table == t.ptr
            s1 == t.s
            cell == table + JUDY_slot_size * (key % 16)
        IN  IF table = NULL THEN Trap(s1)
            ELSE IF RadixSplitLeaf(h, key, keysize, depth)
            THEN [s1 EXCEPT !.mem = WrSlot(@, cell, RdSlot(s1.mem, SlotAddr(oldnode, start)))]
            ELSE With(judy_alloc(s1, j, type, mallocOk), LAMBDA b :
                 LET base == b.ptr
                     node == base + size
                     m1 == WrSlot(b.s.mem, cell, base + type)
                     m2 == ShortenKeys(m1, base, newcnt, old, start, cnt, keysize)
                     m3 == CopySlots(m2, node, newcnt - cnt, oldnode, start, cnt)
                 IN  IF base = NULL THEN Trap([b.s EXCEPT !.mem = m1])
                     ELSE [b.s EXCEPT !.mem = m3]))

\* decompose full node to radix nodes: one pass of the loop
\* `for (slot = 0; slot < cnt; slot++)` over r = [s, start, key], key > 255
\* standing for "no key yet"; a group of consecutive partial keys with the
\* same most significant byte ends where the byte changes
SplitStep(r, j, newradix, base, keysize, depth, slot, mallocOk) ==
    IF r.s.fault THEN r
    ELSE LET nxt == r.s.mem[base + slot * keysize + keysize - 1]
             key1 == IF r.key > 255 THEN nxt ELSE r.key
         IN  IF nxt = key1 THEN [r EXCEPT !.key = key1]
             ELSE [s |-> judy_radix(r.s, j, newradix, base, r.start, slot, keysize - 1,
                                    key1 % 256, depth, mallocOk),
                   start |-> slot, key |-> nxt]

\* the passes for slots lo .. hi in order, a quarter of the range at a time
RECURSIVE SplitGroups(_, _, _, _, _, _, _, _, _)
SplitGroups(r, j, newradix, base, keysize, depth, lo, hi, mallocOk) ==
    CASE lo > hi -> r
      [] lo = hi -> SplitStep(r, j, newradix, base, keysize, depth, lo, mallocOk)
      [] OTHER ->
         LET q == (hi - lo + 4) \div 4
             r1 == SplitGroups(r, j, newradix, base, keysize, depth, lo,
                               Min(hi, lo + q - 1), mallocOk)
             r2 == SplitGroups(r1, j, newradix, base, keysize, depth, lo + q,
                               Min(hi, lo + 2 * q - 1), mallocOk)
             r3 == SplitGroups(r2, j, newradix, base, keysize, depth, lo + 2 * q,
                               Min(hi, lo + 3 * q - 1), mallocOk)
         IN  CASE r1.s.fault -> r1
               [] r2.s.fault -> r2
               [] r3.s.fault -> r3
               [] OTHER -> SplitGroups(r3, j, newradix, base, keysize, depth, lo + 3 * q,
                                       hi, mallocOk)

\* a split that gives up and leaves the full node as it is
SplitGivesUp(s0, j, next, size, keysize, depth, mallocOk) == Trap(s0)

\* judy_splitnode: split a full maximal node into radix pairs
judy_splitnode(s0, j, next, size, keysize, depth, mallocOk) ==
    LET base == AddrOf(RdSlot(s0.mem, next))
        cnt == LinCnt(size, keysize)
    IN  With(judy_alloc(s0, j, JUDY_radix, mallocOk), LAMBDA a :
        With(SplitGroups([s |-> [a.s EXCEPT !.mem = WrSlot(@, next, a.ptr + JUDY_radix)],
                          start |-> 0, key |-> 256],
                         j, a.ptr, base, keysize, depth, 0, cnt - 1, mallocOk), LAMBDA r :
        With(IF r.s.fault THEN r.s
             ELSE judy_radix(r.s, j, a.ptr, base, r.start, cnt, keysize - 1, r.key % 256,
                             depth, mallocOk), LAMBDA s2 :
        IF s2.fault THEN s2 ELSE Note(judy_free(s2, j, base, JUDY_max), "split"))))

\* split open span node
RECURSIVE SplitSpanLoop(_, _, _, _, _, _, _)
SplitSpanLoop(s, j, next, base, off, cnt, mallocOk) ==
    With(judy_alloc(s, j, JUDY_1, mallocOk), LAMBDA a :
    LET newbase == a.ptr
        m1 == WrSlot(a.s.mem, next, newbase + JUDY_1)
        m2 == [x \in (newbase .. newbase + JUDY_key_size - 1) \cap DOMAIN m1 |->
                 m1[base + off + (JUDY_key_size - 1) - (x - newbase)]] @@ m1
        s1 == [a.s EXCEPT !.mem = m2]
        next1 == newbase + JUDY_key_size
        off1 == off + JUDY_key_size
        cnt1 == cnt - JUDY_key_size
    IN  IF newbase = NULL THEN [s |-> Trap([a.s EXCEPT !.mem = m1]), next |-> next]
        ELSE IF cnt1 # 0 /\ m2[base + off1 - 1] # 0
        THEN SplitSpanLoop(s1, j, next1, base, off1, cnt1, mallocOk)
        ELSE [s |-> s1, next |-> next1])

judy_splitspan(s0, j, next, base, mallocOk) ==
    With(SplitSpanLoop(s0, j, next, base, 0, JUDY_span_bytes, mallocOk), LAMBDA r :
    LET node == base + JudySize(JUDY_span)
        s1 == [r.s EXCEPT !.mem = WrSlot(@, r.next, RdSlot(r.s.mem, SlotAddr(node, 0)))]
    IN  IF r.s.fault THEN r.s ELSE Note(judy_free(s1, j, base, JUDY_span), "splitspan"))

\* ------------------------------------------------------------------------
\* judy_del: delete the key and cell for the current stack entry, returning
\* the previous entry.  Returns [s, ret, hang].
\* ------------------------------------------------------------------------
\* the result of judy_prv(judy) on machine state s
PrvOf(s, j) ==
    With(judy_prv(s.mem, s.judy[j]), LAMBDA r :
         [s |-> [s EXCEPT !.judy[j] = r.h], ret |-> r.ret, hang |-> r.hang])

RECURSIVE judy_del(_, _)
judy_del(s, j) ==
    LET h == s.judy[j]
    IN
    IF h.level = 0
    THEN \* tree is now empty
         [s |-> [s EXCEPT !.mem = WrSlot(@, h.addr, 0)], ret |-> NULL, hang |-> FALSE]
    ELSE
    LET next == h.stack[h.level].next
        slot == h.stack[h.level].slot
        off == h.stack[h.level].off
        type == TypeOf(next)
        size == JudySize(type)
        base == AddrOf(next)
        m == s.mem
    IN  CASE type = JUDY_radix ->
             LET table == base
                 outer == table + JUDY_slot_size * (slot \div 16)
                 inner == AddrOf(RdSlot(m, outer))
                 m1 == WrSlot(m, inner + JUDY_slot_size * (slot % 16), 0)
                 s1 == judy_free([s EXCEPT !.mem = m1], j, inner, JUDY_radix)
                 s2 == [s1 EXCEPT !.mem = WrSlot(@, outer, 0)]
                 s3 == judy_free(s2, j, table, JUDY_radix)
             IN  IF \E c \in 0 .. 15 : RdSlot(m1, inner + JUDY_slot_size * c) # 0
                 THEN PrvOf([s EXCEPT !.mem = m1], j)
                 ELSE IF \E c \in 0 .. 15 : RdSlot(s2.mem, table + JUDY_slot_size * c) # 0
                 THEN PrvOf(s2, j)
                 ELSE judy_del([s3 EXCEPT !.judy[j].level = @ - 1], j)
          [] type = JUDY_span ->
             judy_del([judy_free(s, j, base, type) EXCEPT !.judy[j].level = @ - 1], j)
          [] OTHER ->
             LET keysize == KeySize(off)
                 cnt == LinCnt(size, keysize)
                 node == base + size
                 \* move deleted slot to first slot
                 m1 == CopySlots(m, node, 1, node, 0, slot)
                 m2 == MemMove(m1, base + keysize, base, slot * keysize)
                 \* zero out first slot
                 m3 == MemZero(WrSlot(m2, SlotAddr(node, 0), 0), base, keysize)
                 s1 == [s EXCEPT !.mem = m3]
             IN  IF RdSlot(m3, SlotAddr(node, cnt - 1)) # 0
                 THEN PrvOf([s1 EXCEPT !.judy[j].stack[h.level].slot = @ + 1], j)
                 ELSE judy_del([judy_free(s1, j, base, type) EXCEPT !.judy[j].level = @ - 1],
                               j)

\* ------------------------------------------------------------------------
\* judy_cell: add string to judy array.  Returns [s, ret].
\* ------------------------------------------------------------------------
\* one pass of the loop `while (*next)` with *next # 0: returns
\* [s, next, off, depth, done, ret]; done when the pass returned ret (or
\* trapped), otherwise the loop goes on at next
CellStep(s, j, K, max, next, off, depth, mallocOk) ==
    LET cur == RdSlot(s.mem, next)
        h == Push(s.judy[j], cur, off)
        type == TypeOf(cur)
        base == AddrOf(cur)
        m == s.mem
        Return(s1, r) == [s |-> s1, next |-> r, off |-> off, depth |-> depth,
                          done |-> TRUE, ret |-> r]
        Continue(s1, next1, off1, depth1) ==
            [s |-> s1, next |-> next1, off |-> off1, depth |-> depth1,
             done |-> s1.fault, ret |-> NULL]
    IN  CASE type = JUDY_radix ->
             LET table == base
                 slot == IF h.depth # 0 THEN SrcByte(K, depth, off + 1)
                         ELSE IF off < max THEN K[off + 1] ELSE 0
                 off1 == off + 1
                 depth1 == IF h.depth # 0 /\ off1 % JUDY_key_size = 0
                           THEN depth + 1 ELSE depth
                 outer == table + JUDY_slot_size * (slot \div 16)
                 sh == [s EXCEPT !.judy[j] = h]
             IN  \* allocate inner radix if empty
                 With(IF RdSlot(m, outer) # 0
                      THEN [s |-> sh, ptr |-> AddrOf(RdSlot(m, outer))]
                      ELSE With(judy_alloc(sh, j, JUDY_radix, mallocOk), LAMBDA a :
                           [s |-> [a.s EXCEPT !.mem = WrSlot(@, outer, a.ptr + JUDY_radix)],
                            ptr |-> a.ptr]),
                      LAMBDA t :
                 LET inner == t.ptr
                     s2 == [t.s EXCEPT !.judy[j] = SetSlot(@, slot)]
                     next1 == inner + JUDY_slot_size * (slot % 16)
                 IN  IF RadixLeaf(h, slot, depth1) THEN Return(s2, next1)
                     ELSE Continue(s2, next1, off1, depth1))
          [] type = JUDY_span ->
             LET node == base + JudySize(JUDY_span)
                 cnt == JUDY_span_bytes
                 tst == Min(cnt, max - off)
                 equal == SpanEqual(m, base, K, off, tst)
                 s1 == [s EXCEPT !.judy[j] = h]
             IN  IF equal /\ tst < cnt /\ m[base + tst] = 0
                 THEN Return(s1, SlotAddr(node, 0))
                 ELSE IF equal /\ tst = cnt
                 THEN Continue(s1, SlotAddr(node, 0), off + cnt, depth)
                 ELSE \* bust up JUDY_span node and produce JUDY_1 nodes
                      With(judy_splitspan(s1, j, next, base, mallocOk), LAMBDA s2 :
                           Continue([s2 EXCEPT !.judy[j].level = @ - 1], next, off, depth))
          [] OTHER ->
             LET size == JudySize(type)
                 keysize == KeySize(off)
                 cnt == LinCnt(size, keysize)
                 node == base + size
                 start == off
                 value == DigitValue(h, K, max, off, depth)
                 depth1 == IF h.depth # 0 THEN depth + 1 ELSE depth
                 off1 == NextDigit(off)
                 slot == FindSlot(m, base, cnt, keysize, value)
                 test == LinKey(m, base, IF slot < 0 THEN 0 ELSE slot, keysize)
                 h1 == SetSlot(h, slot)
                 s1 == [s EXCEPT !.judy[j] = h1]
                 leaf == LinLeaf(h, value, depth1)
                 \* open up cell after slot
                 m1 == MemMove(m, base, base + keysize, slot * keysize)
                 m2 == WrLinKey(m1, base, slot, keysize, value)
                 m3 == CopySlots(m2, node, 0, node, 1, slot)
                 m4 == WrSlot(m3, SlotAddr(node, slot), 0)
                 s2 == [s1 EXCEPT !.mem = m4]
             IN  IF test = value
                 THEN \* new key is equal to slot key
                      IF leaf THEN Return(s1, SlotAddr(node, slot))
                      ELSE Continue(s1, SlotAddr(node, slot), off1, depth1)
                 ELSE IF RdSlot(m, SlotAddr(node, 0)) = 0
                 THEN \* with slot = -1 the length of the memmove is (size_t)-keysize
                      IF slot < 0 THEN Return(Trap(s1), NULL)
                      ELSE IF leaf THEN Return(s2, SlotAddr(node, slot))
                      ELSE Continue(s2, SlotAddr(node, slot), off1, depth1)
                 ELSE IF size < JudySize(JUDY_max)
                 THEN With(judy_promote(s1, j, next, slot + 1, value, keysize, mallocOk),
                           LAMBDA p :
                           IF p.s.fault \/ leaf THEN Return(p.s, p.ret)
                           ELSE Continue(p.s, p.ret, off1, depth1))
                 ELSE \* split full maximal node into JUDY_radix nodes
                      With(judy_splitnode(s1, j, next, size, keysize, depth1, mallocOk),
                           LAMBDA s3 :
                           Continue([s3 EXCEPT !.judy[j].level = @ - 1], next, start, depth))

\* the loop `while (*next)` from r = [s, next, off, depth, done, ret]: ends
\* done when a pass returned or trapped, and not done when the descent
\* reached an empty slot at next
RECURSIVE CellLoop(_, _, _, _, _)
CellLoop(r, j, K, max, mallocOk) ==
    CASE r.done -> r
      [] r.next \notin DOMAIN r.s.mem -> [r EXCEPT !.s = Trap(@), !.done = TRUE, !.ret = NULL]
      [] RdSlot(r.s.mem, r.next) = 0 -> r
      [] OTHER -> CellLoop(CellStep(r.s, j, K, max, r.next, r.off, r.depth, mallocOk),
                           j, K, max, mallocOk)

\* push the frame of a node created below the descent:
\* stack[level] = [next, slot 0, off]
PushNew(h, next, off) == SetSlot(Push(h, next, off), 0)

\* "place JUDY_1 node under JUDY_radix node(s)": returns [s, next, off, depth]
CellFiller(s, j, K, max, next, off, depth, mallocOk) ==
    With(judy_alloc(s, j, JUDY_1, mallocOk), LAMBDA a :
    LET h == s.judy[j]
        base == a.ptr
        keysize == KeySize(off)
        node == base + JudySize(JUDY_1)
        s1 == [a.s EXCEPT !.mem = WrSlot(@, next, base + JUDY_1)]
        \* fill in slot 0 with bytes of key
        value == IF h.depth # 0 THEN SrcDigit(K, depth) ELSE StringDigit(K, max, off)
        writes == h.depth # 0 \/ off < max
        s2 == IF base = NULL
              THEN (IF writes THEN Trap(s1) ELSE s1)
              ELSE [s1 EXCEPT !.mem = WrLinKey(@, base, 0, keysize, value)]
        s3 == [s2 EXCEPT !.judy[j] = PushNew(@, base + JUDY_1, off)]
    IN  IF off % JUDY_key_size # 0 /\ (h.depth # 0 \/ off <= max)
        THEN [s |-> s3, next |-> SlotAddr(node, 0), off |-> NextDigit(off),
              depth |-> depth + 1]
        ELSE [s |-> s, next |-> next, off |-> off, depth |-> depth])

\* "produce span nodes to consume rest of key": while (off <= max)
RECURSIVE CellSpans(_, _, _, _, _, _, _)
CellSpans(s, j, K, max, next, off, mallocOk) ==
    IF s.fault \/ off > max THEN [s |-> s, ret |-> next]
    ELSE With(judy_alloc(s, j, JUDY_span, mallocOk), LAMBDA a :
         LET base == a.ptr
             node == base + JudySize(JUDY_span)
             cnt == JUDY_span_bytes
             tst == Min(cnt, max - off)
             s1 == [a.s EXCEPT !.mem = WrSlot(@, next, base + JUDY_span)]
             m2 == [x \in (base .. base + tst - 1) \cap DOMAIN s1.mem |->
                      K[off + (x - base) + 1]] @@ s1.mem
             s2 == [s1 EXCEPT !.mem = m2, !.judy[j] = PushNew(@, base + JUDY_span, off)]
         IN  IF base = NULL THEN [s |-> Trap(s1), ret |-> NULL]
             ELSE IF m2[base + cnt - 1] = 0      \* done on leaf
             THEN [s |-> s2, ret |-> SlotAddr(node, 0)]
             ELSE CellSpans(s2, j, K, max, SlotAddr(node, 0), off + tst, mallocOk))

\* "or judy_1 nodes if not string tree": while (depth < judy->depth)
RECURSIVE CellDigits(_, _, _, _, _, _, _)
CellDigits(s, j, K, next, off, depth, mallocOk) ==
    IF s.fault \/ depth >= s.judy[j].depth THEN [s |-> s, ret |-> next]
    ELSE With(judy_alloc(s, j, JUDY_1, mallocOk), LAMBDA a :
         LET base == a.ptr
             node == base + JudySize(JUDY_1)
             s1 == [a.s EXCEPT !.mem = WrSlot(@, next, base + JUDY_1)]
             s2 == [s1 EXCEPT !.mem = WrLinKey(@, base, 0, JUDY_key_size,
                                               SrcDigit(K, depth)),
                              !.judy[j] = PushNew(@, base + JUDY_1, off)]
         IN  IF base = NULL THEN [s |-> Trap(s1), ret |-> NULL]
             ELSE CellDigits(s2, j, K, SlotAddr(node, 0), NextDigit(off), depth + 1,
                             mallocOk))

\* judy_cell(judy, buff, max); mallocOk is the outcome of malloc should a
\* segment be needed.  A use of the NULL that judy_alloc returned traps.
judy_cell(s0, j, K, max, mallocOk) ==
    With(CellLoop([s |-> [s0 EXCEPT !.judy[j].level = 0], next |-> s0.judy[j].addr,
                   off |-> 0, depth |-> 0, done |-> s0.fault, ret |-> NULL],
                  j, K, max, mallocOk), LAMBDA l :
    IF l.done THEN [s |-> l.s, ret |-> IF l.s.fault THEN NULL ELSE l.ret]
    ELSE
    With(CellFiller(l.s, j, K, max, l.next, l.off, l.depth, mallocOk), LAMBDA f :
    With(IF f.s.judy[j].depth = 0
         THEN CellSpans(f.s, j, K, max, f.next, f.off, mallocOk)
         ELSE CellDigits(f.s, j, K, f.next, f.off, f.depth, mallocOk), LAMBDA c :
    [s |-> c.s, ret |-> IF c.s.fault THEN NULL ELSE c.ret])))

\* ------------------------------------------------------------------------
\* judy_data, judy_clone
\* ------------------------------------------------------------------------
\* judy_data(judy, amt): returns [s, ptr]; only the first JUDY_slot_size bytes
\* of the block (the root slot of a handle placed there) are kept in mem.
\* seg->next -= amt is unsigned: below zero it wraps to 2^32 + next (kept
\* here as the negative next) and the memset runs outside the segment; a block that starts inside the segment header
\* ({ void *seg; uint next; }) has the header fields it covers zeroed by the
\* memset
judy_data(s, j, amt0, mallocOk) ==
    LET h == s.judy[j]
        amt == RoundUp(amt0, JUDY_cache_line)
        grow == s.segs[h.seg].next < amt + SizeofJudySeg
        n == Len(s.segs) + 1
        segs1 == IF grow
                 THEN Append(s.segs, [next |-> JUDY_seg - (SegAddr(n) % JUDY_cache_line),
                                      seg |-> h.seg])
                 ELSE s.segs
        seg == IF grow THEN n ELSE h.seg
        nxt == segs1[seg].next - amt
        block == SegAddr(seg) + nxt
        zeroed == [b \in {a \in block .. block + JUDY_slot_size - 1 : nxt >= SizeofJudySeg}
                     |-> 0]
    IN  IF h.seg = NULL \/ (grow /\ ~mallocOk) THEN [s |-> s, ptr |-> NULL]
        ELSE IF nxt < 0
        THEN [s |-> Trap([s EXCEPT !.segs = [segs1 EXCEPT ![seg].next = nxt],
                                   !.judy[j].seg = seg]),
              ptr |-> NULL]
        ELSE [s |-> [s EXCEPT !.segs = [segs1 EXCEPT
                                          ![seg].next = IF nxt < SizeofJudySeg THEN 0 ELSE nxt,
                                          ![seg].seg = IF nxt = 0 THEN NULL ELSE @],
                             !.judy[j].seg = seg,
                             !.mem = zeroed @@ @],
              ptr |-> block]

\* judy_clone(judy): the clone becomes handle Len(s.judy) + 1
judy_clone(s, j, mallocOk) ==
    With(judy_data(s, j, SizeofJudy + s.judy[j].max * SizeofJudyStack, mallocOk), LAMBDA d :
    LET h == s.judy[j]
        clone == [d.s.judy[j] EXCEPT !.addr = d.ptr, !.seg = NULL]
    IN  IF d.ptr = NULL THEN Trap(s)
        ELSE [d.s EXCEPT !.judy = Append(@, clone),
                         !.mem = WrSlot(@, d.ptr, RdSlot(s.mem, h.addr))])

\* ------------------------------------------------------------------------
\* The program as a state machine: one handle set driven by a caller that
\* opens a trie and then calls the operations of the interface.
\* ------------------------------------------------------------------------
VARIABLES mem, segs, judy, fault, ev,   \* the machine state
          ret,                          \* what the last operation returned
          op, arg,                      \* the last operation and its key
          ref,                          \* keys inserted and not deleted since, with values
          sc, plan,                     \* the caller's scenario and scripted inserts
          nmut                          \* number of cell / del calls made freely

vars == <<mem, segs, judy, fault, ev, ret, op, arg, ref, sc, plan, nmut>>

\* the machine state the operators work on, before an operation begins
S == [mem |-> mem, segs |-> segs, judy |-> judy, fault |-> fault, ev |-> {}]

\* ---- bounds of the exploration ----
MaxMut == 3         \* free cell / del calls per run
MaxVal == 2         \* cell values are 1 .. MaxVal
FillLen == 33       \* scripted inserts of a fill scenario
DeepLen == 57       \* scripted inserts of the scenario that splits down to bytes
FixDepth == 2       \* digits of a fixed-mode key
StrMax == 20        \* max key bytes given to judy_open in byte-string mode
EdgeMax == 2        \* max_key_bytes of the scenario that fills the cursor stack
MaxSegs == 2        \* judy_data is asked for more than the head segment has below this many segments
SpanMax == 27       \* max key bytes given to judy_open where one span holds a whole key

Values == 1 .. MaxVal

Rep(b, n) == [i \in 1 .. n |-> b]

\* a fixed-mode key of digits d0, d1, ... (each < 65536) as buffer bytes
FixKey(digits) ==
    [i \in 1 .. Len(digits) * JUDY_key_size |->
       LET d == digits[(i - 1) \div JUDY_key_size + 1]
           b == (i - 1) % JUDY_key_size
       IN  IF b = 0 THEN d % 256 ELSE IF b = 1 THEN d \div 256 ELSE 0]

\* the scripted inserts of a scenario: distinct leading bytes, not in order
FillKeyNo(i) == 1 + ((i * 7) % FillLen)
DeepKeyNo(i) == 1 + ((i * 7) % DeepLen)

\* the keys a scenario's caller uses; after a script, the last key of the
\* script is one of them
Keys(scn) ==
    CASE scn = "lin" -> {<<>>, <<1>>, <<2>>, <<1, 2>>}
      [] scn = "span" -> {Rep(1, 8), Rep(1, 9), Rep(1, 8) \o <<2>>, Rep(1, 17)}
      [] scn = "spantail" -> {Rep(1, SpanMax - 1), Rep(1, SpanMax - 2) \o <<2>>,
                              Rep(1, SpanMax - 3)}
      [] scn = "fix" -> {FixKey(Rep(0, FixDepth)), FixKey(Rep(1, FixDepth)),
                         FixKey([Rep(1, FixDepth) EXCEPT ![FixDepth] = 256]),
                         FixKey([Rep(0, FixDepth) EXCEPT ![1] = 256])}
      [] scn = "fill" -> {<<>>, <<FillKeyNo(FillLen)>>, <<FillKeyNo(FillLen), 1>>}
      [] scn = "oom" -> {<<>>, <<1>>, <<1, 2>>}
      [] scn = "rd" -> {<<1>>, <<1, 2>>}
      [] scn = "rdfix" -> {FixKey(Rep(1, FixDepth)),
                           FixKey([Rep(1, FixDepth) EXCEPT ![FixDepth] = 256])}
      [] scn = "fixfill" -> {FixKey([Rep(0, FixDepth) EXCEPT ![1] = FillKeyNo(FillLen)]),
                             FixKey([Rep(1, FixDepth) EXCEPT ![1] = FillKeyNo(FillLen)])}
      [] scn = "edge" -> {<<>>, <<2>>, <<1, DeepKeyNo(DeepLen)>>, <<1, 3>>, <<1, 200>>,
                          <<2, 1>>}
      [] scn = "edgefix" -> {FixKey(<<DeepKeyNo(DeepLen)>>), FixKey(<<3>>),
                             FixKey(<<255>>), FixKey(<<256>>)}
      [] scn = "strtop" -> {Rep(1, 7) \o <<DeepKeyNo(DeepLen)>>, Rep(1, 7) \o <<3>>,
                            Rep(1, 7) \o <<200>>, Rep(1, 7)}
      [] scn = "fixtop" -> {FixKey(<<DeepKeyNo(DeepLen), 1>>), FixKey(<<3, 1>>),
                            FixKey(<<3, 2>>), FixKey(<<255, 1>>)}
      [] scn = "long" -> {Rep(1, StrMax), Rep(1, StrMax - 1),
                          [Rep(1, StrMax) EXCEPT ![StrMax] = 2]}
      [] scn = "fixdeep" -> {FixKey([Rep(0, FixDepth) EXCEPT ![FixDepth] = DeepKeyNo(DeepLen)]),
                             FixKey([Rep(0, FixDepth) EXCEPT ![FixDepth] = 3]),
                             FixKey([Rep(0, FixDepth) EXCEPT ![FixDepth] = 255])}

Fixed(scn) == scn \in {"fix", "fixfill", "fixdeep", "rdfix", "edgefix", "fixtop"}

\* the arguments of judy_open: max key bytes, and digits per key (0: strings)
KeyMax(scn) ==
    IF scn = "edge" THEN EdgeMax ELSE IF scn = "spantail" THEN SpanMax ELSE StrMax
Depth(scn) == IF scn = "edgefix" THEN 1 ELSE IF Fixed(scn) THEN FixDepth ELSE 0

Script(scn) ==
    CASE scn = "fill" -> [i \in 1 .. FillLen |-> <<FillKeyNo(i)>>]
      [] scn = "fixfill" ->
           [i \in 1 .. FillLen |-> FixKey([Rep(0, FixDepth) EXCEPT ![1] = FillKeyNo(i)])]
      [] scn = "fixdeep" ->
           [i \in 1 .. DeepLen |->
              FixKey([Rep(0, FixDepth) EXCEPT ![FixDepth] = DeepKeyNo(i)])]
      [] scn = "edge" -> [i \in 1 .. DeepLen |-> <<1, DeepKeyNo(i)>>]
      [] scn = "edgefix" -> [i \in 1 .. DeepLen |-> FixKey(<<DeepKeyNo(i)>>)]
      [] scn = "strtop" -> [i \in 1 .. DeepLen |-> Rep(1, 7) \o <<DeepKeyNo(i)>>]
      [] scn = "fixtop" -> [i \in 1 .. DeepLen |-> FixKey(<<DeepKeyNo(i), 1>>)]
      [] OTHER -> <<>>

Scenarios == {"lin", "span", "fix", "fill", "fixfill", "fixdeep"}

\* free cell / del calls a scenario's caller makes (after its script)
FreeMut(scn) ==
    IF Script(scn) # <<>> THEN 1 ELSE IF scn \in {"oom", "rd", "rdfix", "long"} THEN MaxMut - 1 ELSE MaxMut

\* the key the cursor of handle h identifies, as judy_key reports it
KeyOf(m, h) ==
    IF h.depth # 0
    THEN judy_key(m, h, Rep(0, h.depth * JUDY_key_size), h.depth * JUDY_key_size).buff
    ELSE LET r == judy_key(m, h, Rep(0, h.max), h.max)    \* room for the terminator
         IN  SubSeq(r.buff, 1, r.len)

\* the state after judy_open, for a caller with one of the scenarios scns
InitFor(scns) ==
    /\ sc \in scns
    /\ LET s == judy_open(KeyMax(sc), Depth(sc))
       IN  /\ mem = s.mem
           /\ segs = s.segs
           /\ judy = s.judy
           /\ fault = s.fault
           /\ ev = s.ev
    /\ ret = NULL
    /\ op = "open"
    /\ arg = <<>>
    /\ ref = {}
    /\ plan = Script(sc)
    /\ nmut = 0

Init == InitFor(Scenarios)

\* the machine state after an operation
Becomes(s) ==
    /\ mem' = s.mem
    /\ segs' = s.segs
    /\ judy' = s.judy
    /\ fault' = s.fault
    /\ ev' = s.ev

\* the reference set after value v was stored for key k / after k was deleted
RefPut(r, k, v) == {e \in r : e.key # k} \cup {[key |-> k, val |-> v]}
RefDel(r, k) == {e \in r : e.key # k}

\* the cursor of the handle is on a cell the last operation returned
Positioned == ret # NULL /\ RdSlotSafe(mem, ret) # 0

\* the caller's store of a non-zero value v in the cell that c = [s, ret], the
\* result of judy_cell for key k on handle j, returned
Stores(c, j, k, v) ==
    LET stored == ~c.s.fault /\ c.ret # NULL
        s1 == IF ~stored THEN c.s
              ELSE IF c.ret \in DOMAIN c.s.mem
              THEN [c.s EXCEPT !.mem = WrSlot(@, c.ret, v)]
              ELSE Trap(c.s)
    IN  /\ Becomes(s1)
        /\ ret' = c.ret
        /\ op' = IF j = 1 THEN "cell" ELSE "clonecell"
        /\ arg' = k
        /\ ref' = IF stored /\ ~s1.fault THEN RefPut(ref, k, v) ELSE ref

\* cell(K) followed by the caller's store
DoCell(j, k, v, mallocOk) == Stores(judy_cell(S, j, k, Len(k), mallocOk), j, k, v)

\* the value the caller stores for key k: 1 at first, then the next of Values
NewVal(k) ==
    IF \E e \in ref : e.key = k
    THEN ((CHOOSE e \in ref : e.key = k).val % MaxVal) + 1
    ELSE 1

Cell ==
    /\ ~fault
    /\ IF plan # <<>>
       THEN /\ DoCell(1, Head(plan), NewVal(Head(plan)), TRUE)
            /\ plan' = Tail(plan)
            /\ nmut' = nmut
       ELSE /\ nmut < FreeMut(sc)
            /\ \E k \in Keys(sc) : DoCell(1, k, NewVal(k), TRUE)
            /\ plan' = plan
            /\ nmut' = nmut + 1
    /\ sc' = sc

\* the state after judy_del returned d = [s, ret, hang]
Deleted(d) ==
    /\ Becomes(IF d.hang THEN Trap(d.s) ELSE d.s)
    /\ ret' = d.ret
    /\ ref' = IF judy[1].level = 0 THEN ref ELSE RefDel(ref, KeyOf(mem, judy[1]))

\* del: deletes the cursor's key; called with the cursor on a cell or unpositioned
Del ==
    /\ ~fault /\ plan = <<>> /\ nmut < FreeMut(sc)
    /\ Positioned \/ judy[1].level = 0
    /\ Deleted(judy_del(S, 1))
    /\ op' = "del"
    /\ arg' = <<>>
    /\ nmut' = nmut + 1
    /\ UNCHANGED <<sc, plan>>

\* an operation that only moves the cursor: r is its [h, ret, hang]
Moves(r, name, k) ==
    /\ ~fault /\ plan = <<>>
    /\ mem' = mem /\ segs' = segs /\ ev' = {}
    /\ judy' = [judy EXCEPT ![1] = r.h]
    /\ fault' = r.hang
    /\ ret' = r.ret
    /\ op' = name
    /\ arg' = k
    /\ UNCHANGED <<ref, sc, plan, nmut>>

Slot ==
    \E k \in Keys(sc) :
       LET r == judy_slot(mem, judy[1], k, Len(k))
       IN  Moves([h |-> r.h, ret |-> r.ret, hang |-> FALSE], "slot", k)

Strt == \E k \in Keys(sc) : Moves(judy_strt(mem, judy[1], k, Len(k)), "strt", k)

\* nxt and prv are called on a cursor that is on a cell or unpositioned; the
\* caller of a scripted scenario takes single steps
Stepping ==
    /\ Positioned \/ judy[1].level = 0
    /\ Script(sc) = <<>> \/ op \notin {"nxt", "prv"}

End == Moves(judy_end(mem, judy[1]), "end", <<>>)

Nxt == Stepping /\ Moves(judy_nxt(mem, judy[1]), "nxt", <<>>)

Prv == Stepping /\ Moves(judy_prv(mem, judy[1]), "prv", <<>>)

Next == Cell \/ Del \/ Slot \/ Strt \/ End \/ Nxt \/ Prv

Spec == Init /\ [][Next]_vars

\* ------------------------------------------------------------------------
\* What a caller observes of a state: full traversals and the key order
\* ------------------------------------------------------------------------
\* the entry a traversal step r = [h, ret, hang] stands on
Entry(m, r) == [key |-> KeyOf(m, r.h), val |-> RdSlotSafe(m, r.ret)]

\* no traversal has more steps than the memory has slots
Fuel(m) == Cardinality(DOMAIN m) \div JUDY_slot_size

\* nxt from an unpositioned cursor until it returns absent: steps lo .. hi of
\* the walk w = [r, out], r the result of the last call and out the entries
\* passed, a quarter of the steps at a time
RECURSIVE FwdWalk(_, _, _, _)
FwdWalk(m, w, lo, hi) ==
    CASE lo > hi \/ w.r.ret = NULL \/ w.r.hang -> w
      [] lo = hi -> [r |-> judy_nxt(m, w.r.h), out |-> Append(w.out, Entry(m, w.r))]
      [] OTHER ->
         LET q == (hi - lo + 4) \div 4
             Ended(x) == x.r.ret = NULL \/ x.r.hang
             w1 == FwdWalk(m, w, lo, Min(hi, lo + q - 1))
             w2 == FwdWalk(m, w1, lo + q, Min(hi, lo + 2 * q - 1))
             w3 == FwdWalk(m, w2, lo + 2 * q, Min(hi, lo + 3 * q - 1))
         IN  CASE Ended(w1) -> w1
               [] Ended(w2) -> w2
               [] Ended(w3) -> w3
               [] OTHER -> FwdWalk(m, w3, lo + 3 * q, hi)

Forward(m, h) ==
    FwdWalk(m, [r |-> judy_nxt(m, [h EXCEPT !.level = 0]), out |-> <<>>], 1, Fuel(m)).out

\* prv from an unpositioned cursor until it returns absent
RECURSIVE BwdWalk(_, _, _, _)
BwdWalk(m, w, lo, hi) ==
    CASE lo > hi \/ w.r.ret = NULL \/ w.r.hang -> w
      [] lo = hi -> [r |-> judy_prv(m, w.r.h), out |-> Append(w.out, Entry(m, w.r))]
      [] OTHER ->
         LET q == (hi - lo + 4) \div 4
             Ended(x) == x.r.ret = NULL \/ x.r.hang
             w1 == BwdWalk(m, w, lo, Min(hi, lo + q - 1))
             w2 == BwdWalk(m, w1, lo + q, Min(hi, lo + 2 * q - 1))
             w3 == BwdWalk(m, w2, lo + 2 * q, Min(hi, lo + 3 * q - 1))
         IN  CASE Ended(w1) -> w1
               [] Ended(w2) -> w2
               [] Ended(w3) -> w3
               [] OTHER -> BwdWalk(m, w3, lo + 3 * q, hi)

Backward(m, h) ==
    BwdWalk(m, [r |-> judy_prv(m, [h EXCEPT !.level = 0]), out |-> <<>>], 1, Fuel(m)).out

\* lexicographic order of byte sequences
LexLess(a, b) ==
    \E i \in 1 .. Min(Len(a), Len(b)) + 1 :
       /\ \A n \in 1 .. i - 1 : a[n] = b[n]
       /\ \/ i > Len(a) /\ i <= Len(b)
          \/ i <= Len(a) /\ i <= Len(b) /\ a[i] < b[i]

\* a fixed-mode key with the bytes of each digit most significant first
DigitsOf(k) ==
    [i \in 1 .. Len(k) |->
       SrcDigit(k, (i - 1) \div JUDY_key_size)[((i - 1) % JUDY_key_size) + 1]]

\* the order of keys: bytes in byte-string mode, digit by digit numerically
\* in fixed mode
KeyLess(h, a, b) ==
    IF h.depth # 0 THEN LexLess(DigitsOf(a), DigitsOf(b)) ELSE LexLess(a, b)

Ascending(h, walk) ==
    \A i \in 1 .. Len(walk) - 1 : KeyLess(h, walk[i].key, walk[i + 1].key)

KeySet(walk) == {walk[i].key : i \in 1 .. Len(walk)}
RefKeys == {e.key : e \in ref}

\* C1: after any sequence of cell and del operations, in both modes, nxt
\* from an unpositioned cursor until absent yields keys in strictly ascending
\* order
C1_Sorted == ~fault => Ascending(judy[1], Forward(mem, judy[1]))

C1_Witness ==
    /\ op = "del" /\ Len(Forward(mem, judy[1])) >= 2
    /\ Ascending(judy[1], Forward(mem, judy[1]))

\* slot(K) followed by key on the current state
SlotKey(k) ==
    LET r == judy_slot(mem, judy[1], k, Len(k))
    IN  [ret |-> r.ret, val |-> RdSlotSafe(mem, r.ret), key |-> KeyOf(mem, r.h)]

\* C2: round trip: for every key inserted with cell (value stored) and not
\* deleted since, slot(K) returns a cell holding the value last stored for K
\* and key called immediately afterwards reconstructs exactly K
C2_RoundTrip ==
    ~fault => \A e \in ref :
                 /\ SlotKey(e.key).ret # NULL
                 /\ SlotKey(e.key).val = e.val
                 /\ SlotKey(e.key).key = e.key

\* C3: count conservation: a full forward traversal visits exactly the keys
\* inserted and not deleted since, each exactly once, and so does a full
\* backward traversal
C3_Conservation ==
    ~fault =>
       /\ KeySet(Forward(mem, judy[1])) = RefKeys
       /\ Len(Forward(mem, judy[1])) = Cardinality(RefKeys)
       /\ KeySet(Backward(mem, judy[1])) = RefKeys
       /\ Len(Backward(mem, judy[1])) = Cardinality(RefKeys)

\* the keys present in the trie, and those not below k
Present == KeySet(Forward(mem, judy[1]))
NotBelow(k) == {x \in Present : x = k \/ KeyLess(judy[1], k, x)}
Least(keys) == CHOOSE x \in keys : \A y \in keys : x = y \/ KeyLess(judy[1], x, y)

\* C4: strt(K) returns the cell of the smallest present key >= K, or absent
\* when no present key is >= K, after a match and after a miss at any node
C4_Strt ==
    (op = "strt" /\ ~fault) =>
       IF NotBelow(arg) = {} THEN ret = NULL
       ELSE /\ ret # NULL
            /\ ret = SlotKey(Least(NotBelow(arg))).ret
            /\ KeyOf(mem, judy[1]) = Least(NotBelow(arg))

\* C5: slot(K) returns absent for every key K that is not present, in every
\* reachable state (empty trie, all-zero digits, deleted keys included)
C5_SlotAbsent == (op = "slot" /\ ~fault /\ arg \notin Present) => ret = NULL

\* the present keys below k, and the greatest of a set of keys
Below(k) == {x \in Present : KeyLess(judy[1], x, k)}
Greatest(keys) == CHOOSE x \in keys : \A y \in keys : x = y \/ KeyLess(judy[1], y, x)

\* C6: del with the cursor on a present key K removes exactly K (every other
\* key stays with its value), returns the cell of the greatest present key
\* smaller than K, or absent when K was the smallest, and leaves the cursor
\* on that predecessor
DelStep ==
    LET K == KeyOf(mem, judy[1])
        pre == Forward(mem, judy[1])
    IN  (op' = "del" /\ Positioned /\ ~fault') =>
           /\ Forward(mem', judy'[1]) = SelectSeq(pre, LAMBDA e : e.key # K)
           /\ IF Below(K) = {} THEN ret' = NULL
              ELSE /\ ret' # NULL
                   /\ KeyOf(mem', judy'[1]) = Greatest(Below(K))
                   /\ ret' = judy_slot(mem', judy'[1], Greatest(Below(K)),
                                       Len(Greatest(Below(K)))).ret

C6_Del == [][DelStep]_vars

\* C7: del with an unpositioned cursor (level 0) is a no-op: it returns
\* absent and leaves the root slot, the present keys and their values
\* unchanged
UnposDelStep ==
    (op' = "del" /\ judy[1].level = 0) =>
       /\ ret' = NULL
       /\ RdSlot(mem', judy'[1].addr) = RdSlot(mem, judy[1].addr)
       /\ Forward(mem', judy'[1]) = Forward(mem, judy[1])

C7_DelUnpositioned == [][UnposDelStep]_vars

\* the entries of a traversal other than the one of key k
Others(walk, k) == {walk[i] : i \in {n \in 1 .. Len(walk) : walk[n].key # k}}

\* C8: a cell(K) call that promotes a node, splits a full node into a radix
\* pair or splits a span leaves every previously present key present with
\* an unchanged cell value and adds no key other than K, in both modes
TransformStep ==
    (op' = "cell" /\ ev' \cap {"promote", "split", "splitspan"} # {} /\ ~fault') =>
       LET post == Forward(mem', judy'[1])
       IN  /\ Others(post, arg') = Others(Forward(mem, judy[1]), arg')
           /\ arg' \in KeySet(post)
           /\ Len(post) = Cardinality(KeySet(post))

C8_Preserve == [][TransformStep]_vars

C8_Witness == op = "cell" /\ "split" \in ev /\ ~fault /\ Cardinality(Present) > 2

\* C10: calling cell(K) twice with no operation in between returns the same
\* cell address both times; the second call allocates and frees no node,
\* does not change the value stored in the cell and does not change the set
\* of present keys
SecondCellStep ==
    (op = "cell" /\ ~fault /\ ret # NULL /\ op' = "cell" /\ arg' = arg) =>
       /\ ret' = ret
       /\ ~fault'
       /\ ev' = {}
       /\ segs' = segs
       /\ judy'[1].reuse = judy[1].reuse
       /\ With(judy_cell(S, 1, arg, Len(arg), TRUE), LAMBDA c :
               c.ret = ret /\ c.s.mem = mem /\ c.s.segs = segs)
       /\ KeySet(Forward(mem', judy'[1])) = Present

C10_Idempotent == [][SecondCellStep]_vars

\* a key was inserted twice in a row: its value is the second of Values
C10_Witness ==
    /\ op = "cell" /\ ~fault /\ nmut = 2 /\ Cardinality(ref) = 1
    /\ \E e \in ref : e.key = arg /\ e.val = 2
    /\ RdSlotSafe(mem, ret) = 2

\* ------------------------------------------------------------------------
\* The program with an arena that can run out: the caller also takes data
\* blocks from the arena, clones the handle and inserts through the clone,
\* and malloc can fail
\* ------------------------------------------------------------------------
\* the byte counts a caller asks judy_data for, the head segment's cursor
\* being next: what just fits, one cache line less than a segment, and one
\* cache line more than a segment
DataAmts(next) ==
    {a \in {next - SizeofJudySeg, JUDY_seg - JUDY_cache_line, JUDY_seg + JUDY_cache_line}
       : a > 0}

Data ==
    /\ ~fault /\ plan = <<>> /\ op # "data"
    /\ \E amt \in DataAmts(segs[judy[1].seg].next) :
          LET d == judy_data(S, 1, amt, TRUE)
          IN  /\ amt + SizeofJudySeg <= segs[judy[1].seg].next \/ Len(segs) < MaxSegs
              /\ Becomes(d.s)
              /\ ret' = d.ptr
    /\ op' = "data"
    /\ arg' = <<>>
    /\ UNCHANGED <<ref, sc, plan, nmut>>

Clone ==
    /\ ~fault /\ plan = <<>> /\ Len(judy) = 1
    /\ Becomes(judy_clone(S, 1, TRUE))
    /\ ret' = NULL
    /\ op' = "clone"
    /\ arg' = <<>>
    /\ UNCHANGED <<ref, sc, plan, nmut>>

\* cell while malloc fails, on the handle or on its clone
CellFail ==
    /\ ~fault /\ plan = <<>> /\ nmut < FreeMut(sc)
    /\ \E j \in 1 .. Len(judy), k \in Keys(sc) : DoCell(j, k, NewVal(k), FALSE)
    /\ nmut' = nmut + 1
    /\ UNCHANGED <<sc, plan>>

InitOOM == InitFor({"oom"})

NextOOM == Next \/ Data \/ Clone \/ CellFail

SpecOOM == InitOOM /\ [][NextOOM]_vars

\* the handle the last cell call went through
Caller(o) == IF o = "clonecell" THEN 2 ELSE 1

\* no slot on the way from the root references a null or unallocated node
RootOk(m, h) ==
    RdSlotSafe(m, h.addr) = 0 \/ AddrOf(RdSlotSafe(m, h.addr)) \in DOMAIN m

\* C9: when the arena cannot supply a node that cell(K) needs, cell returns
\* absent and the trie stays consistent: no slot references a null node and
\* every previously present key is still found with its value
NoMemStep ==
    (op' \in {"cell", "clonecell"} /\ "nomem" \in ev') =>
       /\ ret' = NULL
       /\ ~fault'
       /\ RootOk(mem', judy'[Caller(op')])
       /\ Forward(mem', judy'[Caller(op')]) = Forward(mem, judy[Caller(op')])

C9_NoMem == [][NoMemStep]_vars

\* ------------------------------------------------------------------------
\* Stepping back and forth
\* ------------------------------------------------------------------------
\* the cursor is on the cell of a present key: the last operation returned
\* the cell that slot finds for the key that judy_key reports
OnKey ==
    /\ ~fault /\ Positioned
    /\ KeyOf(mem, judy[1]) \in Present
    /\ SlotKey(KeyOf(mem, judy[1])).ret = ret

\* what the second of two cursor moves returns: r = [h, ret, hang]
Landing(r) == [ret |-> r.ret, key |-> KeyOf(mem, r.h), hang |-> r.hang]

\* nxt then prv, prv then nxt, from the current cursor
NxtPrv == With(judy_nxt(mem, judy[1]), LAMBDA n : Landing(judy_prv(mem, n.h)))
PrvNxt == With(judy_prv(mem, judy[1]), LAMBDA p : Landing(judy_nxt(mem, p.h)))

\* C11: with the cursor on a present key K that is not the largest, nxt
\* followed by prv returns K's cell and leaves the cursor on K; when K is
\* not the smallest, prv followed by nxt returns to K
C11_Inverse ==
    OnKey =>
       LET K == KeyOf(mem, judy[1])
           here == [ret |-> ret, key |-> K, hang |-> FALSE]
       IN  /\ K # Greatest(Present) => NxtPrv = here
           /\ K # Least(Present) => PrvNxt = here

\* C12: with an unpositioned cursor nxt returns the cell of the smallest
\* present key and prv the cell of the largest; a forward traversal that
\* returned absent leaves the cursor unpositioned, so that the next nxt starts
\* again at the first key; on an empty trie nxt, prv, end and slot of any key
\* return absent
UnposMoveStep ==
    /\ (op' = "nxt" /\ judy[1].level = 0 /\ Present # {}) =>
          /\ ret' = SlotKey(Least(Present)).ret
          /\ KeyOf(mem', judy'[1]) = Least(Present)
    /\ (op' = "prv" /\ judy[1].level = 0 /\ Present # {}) =>
          /\ ret' = SlotKey(Greatest(Present)).ret
          /\ KeyOf(mem', judy'[1]) = Greatest(Present)
    /\ (op' = "nxt" /\ ret' = NULL) => judy'[1].level = 0
    /\ (op' \in {"nxt", "prv", "end", "slot"} /\ Present = {}) => ret' = NULL

C12_Unpositioned == [][UnposMoveStep]_vars

\* the root slot of the handle
Root == RdSlot(mem, judy[1].addr)

EntrySet(walk) == {walk[i] : i \in 1 .. Len(walk)}

\* C14: cell(K) for a key K that is not present returns a cell whose content
\* is zero, on every insertion path, and no operation of the engine changes
\* the value of a key that stays present
\* the entries before whose key is among the keys after, k excepted, are
\* entries after
Kept(before, keysAfter, after, k) ==
    {e \in before : e.key \in keysAfter /\ e.key # k} \subseteq after

\* a call of cell for key k on entries pre: a new key gets a zero cell, and the
\* entries post after the caller's store keep the values of the other keys
CellKeeps(pre, post, k) ==
    /\ k \notin KeySet(pre) =>
          With(judy_cell(S, 1, k, Len(k), TRUE), LAMBDA c :
               c.ret = ret' /\ RdSlotSafe(c.s.mem, c.ret) = 0)
    /\ \A keys \in {KeySet(post)}, after \in {EntrySet(post)} :
          Kept(EntrySet(pre), keys, after, k)

\* any other operation that changed the memory keeps the values of the keys
\* still present
OtherKeeps(pre, post) ==
    \A keys \in {KeySet(post)}, after \in {EntrySet(post)} :
       Kept(EntrySet(pre), keys, after, <<0>>)

NewCellStep ==
    (~fault' /\ mem' # mem) =>
       \A pre \in {Forward(mem, judy[1])}, post \in {Forward(mem', judy'[1])} :
          IF op' = "cell" THEN CellKeeps(pre, post, arg') ELSE OtherKeeps(pre, post)

C14_ZeroCell == [][NewCellStep]_vars

\* a third key was inserted after a node went through the reuse lists
C14_Witness ==
    /\ op = "cell" /\ ~fault /\ nmut = 3 /\ Cardinality(ref) = 3
    /\ [key |-> arg, val |-> 1] \in ref
    /\ \E t \in 1 .. JUDY_max : judy[1].reuse[t] # NULL

\* C15: immediately after cell(K) returned a cell, whichever path it took,
\* the cursor identifies K: key reports exactly K, and a following del
\* removes exactly K
AfterCellStep ==
    (op = "cell" /\ ~fault /\ ret # NULL) =>
       /\ KeyOf(mem, judy[1]) = arg
       /\ (op' = "del" /\ ~fault') =>
             \A pre \in {Forward(mem, judy[1])}, post \in {Forward(mem', judy'[1])} :
                /\ arg \in KeySet(pre)
                /\ post = SelectSeq(pre, LAMBDA e : e.key # arg)

C15_CursorOnKey == [][AfterCellStep]_vars

\* cell returned after it split a full node and descended again
C15_Witness ==
    /\ op = "cell" /\ ~fault /\ ret # NULL /\ "split" \in ev
    /\ KeyOf(mem, judy[1]) = arg

\* ------------------------------------------------------------------------
\* Readers: the handle and its clones, each with a cursor of its own, once
\* the trie is built.  No cell or del is called after the first clone.
\* ------------------------------------------------------------------------
MaxHandles == 3     \* the handle and its clones

\* the cursor of handle j is unpositioned or on the cell of a present key
OnCell(j) ==
    \/ judy[j].level = 0
    \/ LET k == KeyOf(mem, judy[j])
           r == judy_slot(mem, judy[j], k, Len(k))
       IN  r.ret # NULL /\ RdSlotSafe(mem, r.ret) # 0 /\ r.h = judy[j]

\* handles a scenario's caller has at most: one clone after a script
Handles(scn) == IF Script(scn) = <<>> THEN MaxHandles ELSE 2

CloneMore ==
    /\ ~fault /\ plan = <<>> /\ Len(judy) < Handles(sc)
    /\ Becomes(judy_clone(S, 1, TRUE))
    /\ ret' = NULL
    /\ op' = "clone"
    /\ arg' = <<>>
    /\ UNCHANGED <<ref, sc, plan, nmut>>

\* a cursor that a move of another handle drags along
MovesShared(j, r, name, k) ==
    /\ ~fault /\ plan = <<>>
    /\ mem' = mem /\ segs' = segs /\ ev' = {}
    /\ judy' = [i \in 1 .. Len(judy) |->
                  [judy[i] EXCEPT !.level = r.h.level, !.stack = r.h.stack]]
    /\ fault' = r.hang
    /\ ret' = r.ret
    /\ op' = name
    /\ arg' = k
    /\ UNCHANGED <<ref, sc, plan, nmut>>

\* an operation on handle j that only moves its cursor: r is its [h, ret, hang]
MovesOn(j, r, name, k) ==
    /\ ~fault /\ plan = <<>>
    /\ mem' = mem /\ segs' = segs /\ ev' = {}
    /\ judy' = [judy EXCEPT ![j] = r.h]
    /\ fault' = r.hang
    /\ ret' = r.ret
    /\ op' = name
    /\ arg' = k
    /\ UNCHANGED <<ref, sc, plan, nmut>>

SlotOn(j) ==
    \E k \in Keys(sc) :
       With(judy_slot(mem, judy[j], k, Len(k)), LAMBDA r :
            MovesOn(j, [h |-> r.h, ret |-> r.ret, hang |-> FALSE], "slot", k))

StrtOn(j) == \E k \in Keys(sc) : MovesOn(j, judy_strt(mem, judy[j], k, Len(k)), "strt", k)

EndOn(j) == MovesOn(j, judy_end(mem, judy[j]), "end", <<>>)

\* nxt and prv are called on a cursor that is on a cell or unpositioned; the
\* readers of a scripted scenario take single steps
SteppingOn(j) == OnCell(j) /\ (Script(sc) = <<>> \/ op \notin {"nxt", "prv"})

NxtOn(j) == SteppingOn(j) /\ MovesOn(j, judy_nxt(mem, judy[j]), "nxt", <<>>)

PrvOn(j) == SteppingOn(j) /\ MovesOn(j, judy_prv(mem, judy[j]), "prv", <<>>)

\* key on handle j: the caller gets the key of the cursor in its buffer
KeyOn(j) ==
    /\ OnCell(j)
    /\ MovesOn(j, [h |-> judy[j], ret |-> ret, hang |-> FALSE], "key", KeyOf(mem, judy[j]))

Build == Len(judy) = 1 /\ (Cell \/ Del)

Read ==
    \E j \in 1 .. Len(judy) :
       SlotOn(j) \/ StrtOn(j) \/ EndOn(j) \/ NxtOn(j) \/ PrvOn(j) \/ KeyOn(j)

InitRd == InitFor({"rd", "rdfix"})

NextRd == Build \/ CloneMore \/ Read

SpecRd == InitRd /\ [][NextRd]_vars

ReadOps == {"slot", "strt", "end", "nxt", "prv", "key"}

\* the arena part of handle h: root address, segment, reuse lists, sizes
ArenaOf(h) == [addr |-> h.addr, seg |-> h.seg, reuse |-> h.reuse, max |-> h.max,
               depth |-> h.depth]

\* C16: read-only operations change only the cursor: slot, strt, end, nxt,
\* prv and key leave the root slot, every node's partial keys and child
\* slots, all cell values, the reuse lists and the segments' bump cursors
\* unchanged
ReadOnlyStep ==
    op' \in ReadOps =>
       /\ mem' = mem
       /\ segs' = segs
       /\ Len(judy') = Len(judy)
       /\ \A i \in 1 .. Len(judy) : ArenaOf(judy'[i]) = ArenaOf(judy[i])

Solo(m, h, name, k) ==
    CASE name = "slot" -> With(judy_slot(m, h, k, Len(k)), LAMBDA r :
                               [h |-> r.h, ret |-> r.ret, key |-> k])
      [] name = "strt" -> With(judy_strt(m, h, k, Len(k)), LAMBDA r :
                               [h |-> r.h, ret |-> r.ret, key |-> k])
      [] name = "end"  -> With(judy_end(m, h), LAMBDA r :
                               [h |-> r.h, ret |-> r.ret, key |-> <<>>])
      [] name = "nxt"  -> With(judy_nxt(m, h), LAMBDA r :
                               [h |-> r.h, ret |-> r.ret, key |-> <<>>])
      [] name = "prv"  -> With(judy_prv(m, h), LAMBDA r :
                               [h |-> r.h, ret |-> r.ret, key |-> <<>>])
      [] OTHER         -> [h |-> h, ret |-> ret, key |-> KeyOf(m, h)]

\* the bytes of handle h: struct Judy and its stack of h.max frames
HandleBytes(h) == h.addr .. h.addr + SizeofJudy + h.max * SizeofJudyStack - 1

\* the handles own disjoint blocks of the arena
Apart(hs) ==
    \A i, j \in 1 .. Len(hs) : i # j => HandleBytes(hs[i]) \cap HandleBytes(hs[j]) = {}

\* C17: with no mutator active, read-only operations on the handle and its
\* clones in any interleaving give each handle the results it gets running
\* alone: a step of slot, strt, end, nxt, prv or key is the solo step of one
\* handle on the shared memory, and it changes no other handle's cursor and
\* nothing of the shared graph
IndependentStep ==
    (op' \in ReadOps /\ Len(judy) > 1) =>
       /\ mem' = mem /\ segs' = segs /\ Len(judy') = Len(judy)
       /\ Apart(judy)
       /\ \E j \in 1 .. Len(judy) :
             /\ \A i \in 1 .. Len(judy) : i # j => judy'[i] = judy[i]
             /\ \A solo \in {Solo(mem, judy[j], op', arg')} :
                   /\ judy'[j] = solo.h
                   /\ ret' = solo.ret
                   /\ arg' = solo.key

InsDel(s, K) ==
    With(judy_cell(s, 1, K, Len(K), TRUE), LAMBDA c :
         IF c.s.fault \/ c.ret = NULL \/ c.ret \notin DOMAIN c.s.mem
         THEN [s |-> Trap(c.s), segs |-> c.s.segs]
         ELSE With(judy_del([c.s EXCEPT !.mem = WrSlot(@, c.ret, 1)], 1), LAMBDA d :
                   [s |-> IF d.hang THEN Trap(d.s) ELSE d.s, segs |-> c.s.segs]))

\* keys the caller may insert that are not in the trie
Absent == Keys(sc) \ Present

C18_Witness ==
    /\ ~fault /\ ref # {}
    /\ \E t \in 1 .. JUDY_max : judy[1].reuse[t] # NULL
    /\ \E K \in Absent : InsDel(S, K).segs # segs

\* ------------------------------------------------------------------------
\* Keys of the greatest length, and tries as deep as the cursor stack
\* ------------------------------------------------------------------------
InitEdge == InitFor({"edge", "edgefix", "long"})

SpecEdge == InitEdge /\ [][Next]_vars

\* handle h with a cursor stack of twice the frames
Roomy(h) ==
    [h EXCEPT !.max = 2 * h.max,
              !.stack = [l \in 0 .. 2 * h.max |-> IF l <= h.max THEN h.stack[l] ELSE Frame0]]

\* the cursor of handle h holds every frame of the path to the key it is on:
\* a descent to that key with room to spare pushes the same frames
AllFrames(m, h) ==
    \A k \in {KeyOf(m, h)} :
       \A r \in {judy_slot(m, Roomy(h), k, Len(k))} :
          /\ r.h.level = h.level
          /\ \A l \in 1 .. h.level : r.h.stack[l] = h.stack[l]

\* the stack capacity judy_open sets for scenario scn
StackMax(scn) == IF Depth(scn) # 0 THEN Depth(scn) * JUDY_key_size ELSE KeyMax(scn) + 1

C19_Witness ==
    /\ sc = "edge" /\ op = "cell" /\ ~fault /\ plan = <<>> /\ nmut = 1
    /\ arg = <<1, 200>> /\ Len(arg) = EdgeMax
    /\ judy[1].level = judy[1].max
    /\ KeyOf(mem, judy[1]) = arg

\* ------------------------------------------------------------------------
\* Termination
\* ------------------------------------------------------------------------
\* the loops of the operations called in the current state with key k: the
\* descent of slot and strt, the scans of first and last under strt and end,
\* and the descent of cell with its restarts after a split
KeyOpsEnd(k) ==
    /\ judy_slot(mem, judy[1], k, Len(k)).h.level <= judy[1].max
    /\ ~judy_strt(mem, judy[1], k, Len(k)).hang
    /\ \A c \in {judy_cell(S, 1, k, Len(k), TRUE)} : ~c.s.fault /\ c.ret # NULL

\* the loops of the operations that work from the cursor; nxt, prv and del
\* are called with the cursor on a cell or unpositioned
CursorOpsEnd ==
    /\ ~judy_end(mem, judy[1]).hang
    /\ judy_key(mem, judy[1], Rep(0, judy[1].max), judy[1].max).len <= judy[1].max
    /\ (Positioned \/ judy[1].level = 0) =>
          /\ ~judy_nxt(mem, judy[1]).hang
          /\ ~judy_prv(mem, judy[1]).hang
          /\ \A d \in {judy_del(S, 1)} : ~d.hang /\ ~d.s.fault

\* C20: every public operation (cell, slot, strt, end, nxt, prv, key, del)
\* terminates on every reachable trie whose cells hold non-zero values: no
\* scan of a radix node runs on without end and the descent of cell comes
\* to an end after every split and span split
C20_Terminates ==
    ~fault => CursorOpsEnd /\ \A k \in Keys(sc) : KeyOpsEnd(k)

\* the last insert split a full node and went down again, and the radix
\* nodes it made are scanned by the operations called next
C20_Witness ==
    /\ op = "cell" /\ ~fault /\ "split" \in ev /\ ret # NULL
    /\ \E l \in 1 .. judy[1].level : TypeOf(judy[1].stack[l].next) = JUDY_radix
    /\ judy_end(mem, judy[1]).ret # NULL

\* ------------------------------------------------------------------------
\* The node graph, read from the memory alone: a walk from the root slot that
\* follows the child slots as the descents do
\* ------------------------------------------------------------------------
\* the child slots of the node that tagged pointer next names, reached at key
\* offset off and digit depth: [ref, off, depth, leaf] per occupied slot
ChildSlots(m, h, next, off, depth) ==
    LET type == TypeOf(next)
        base == AddrOf(next)
    IN  CASE type = JUDY_radix ->
             LET off1 == off + 1
                 depth1 == IF h.depth # 0 /\ off1 % JUDY_key_size = 0
                           THEN depth + 1 ELSE depth
             IN  {[ref |-> RadixInner(m, base, slot) + JUDY_slot_size * (slot % 16),
                   off |-> off1, depth |-> depth1, leaf |-> RadixLeaf(h, slot, depth1)]
                  : slot \in RadixSlots(m, base)}
          [] type = JUDY_span ->
             {[ref |-> SlotAddr(base + JudySize(JUDY_span), 0),
               off |-> off + JUDY_span_bytes, depth |-> depth,
               leaf |-> m[base + JUDY_span_bytes - 1] = 0]}
          [] OTHER ->
             LET keysize == KeySize(off)
                 node == base + JudySize(type)
                 depth1 == IF h.depth # 0 THEN depth + 1 ELSE depth
             IN  {[ref |-> SlotAddr(node, i), off |-> NextDigit(off), depth |-> depth1,
                   leaf |-> KeyLeaf(m, h, base, i, keysize, depth1)]
                  : i \in {x \in 0 .. LinCnt(JudySize(type), keysize) - 1 :
                             RdSlot(m, SlotAddr(node, x)) # 0}}

\* the nodes below the slot at address at: [ref, next, off, depth] for each, found
\* within fuel levels
RECURSIVE NodesBelow(_, _, _, _, _, _)
NodesBelow(m, h, at, off, depth, fuel) ==
    LET next == RdSlotSafe(m, at)
    IN  IF next = 0 \/ fuel = 0 \/ AddrOf(next) \notin DOMAIN m THEN {}
        ELSE {[ref |-> at, next |-> next, off |-> off, depth |-> depth]}
             \cup UNION {NodesBelow(m, h, c.ref, c.off, c.depth, fuel - 1)
                         : c \in {x \in ChildSlots(m, h, next, off, depth) : ~x.leaf}}

\* the nodes of the trie of handle h
Nodes(m, h) == NodesBelow(m, h, h.addr, 0, 0, h.max + 1)

LinearNodes(m, h) == {n \in Nodes(m, h) : TypeOf(n.next) \notin {JUDY_radix, JUDY_span}}

\* linear node n is laid out as the code keeps it: occupied positions at the
\* high end, their partial keys strictly ascending, free positions all zero
Packed(m, n) ==
    LET type == TypeOf(n.next)
        base == AddrOf(n.next)
        keysize == KeySize(n.off)
        node == base + JudySize(type)
        cnt == LinCnt(JudySize(type), keysize)
        occ == {i \in 0 .. cnt - 1 : RdSlot(m, SlotAddr(node, i)) # 0}
    IN  /\ occ # {}
        /\ occ = SetMin(occ) .. cnt - 1
        /\ \A i \in occ : i + 1 \in occ =>
              /\ KeyLeq(LinKey(m, base, i, keysize), LinKey(m, base, i + 1, keysize))
              /\ LinKey(m, base, i, keysize) # LinKey(m, base, i + 1, keysize)
        /\ \A i \in (0 .. cnt - 1) \ occ :
              \A b \in 0 .. keysize - 1 : m[base + i * keysize + b] = 0
        /\ (RdSlot(m, SlotAddr(node, 0)) = 0) <=> (Cardinality(occ) < cnt)

\* C21: in every reachable linear node the occupied positions are packed at
\* the high-index end, their partial keys are strictly ascending, child slot
\* i belongs to partial key i, every free position has a zero partial key
\* and a zero child slot, and anchor[-1] = 0 exactly when a position is free;
\* in-place insert, promote, split and del keep it so
C21_Packed ==
    ~fault => \A n \in LinearNodes(mem, judy[1]) : Packed(mem, n)

\* del took a key out of the middle of a node that keeps other keys
C21_Witness ==
    /\ op = "del" /\ ~fault /\ Cardinality(ref) >= 2
    /\ \E n \in LinearNodes(mem, judy[1]) :
          LET cnt == LinCnt(JudySize(TypeOf(n.next)), KeySize(n.off))
              node == AddrOf(n.next) + JudySize(TypeOf(n.next))
          IN  /\ RdSlot(mem, SlotAddr(node, cnt - 2)) # 0
              /\ RdSlot(mem, SlotAddr(node, 0)) = 0

\* ------------------------------------------------------------------------
\* Splits that consume the last byte of a digit
\* ------------------------------------------------------------------------
InitTop == InitFor({"strtop", "fixtop"})

SpecTop == InitTop /\ [][Next]_vars

\* C22: every linear node is written and read with the same partial-key
\* width keysize = W - (off mod W) and none has width 0: a split of a node of
\* width 1 installs the old child slots in the inner radix, in both modes and
\* at every depth.  So a cell that split a node returns a cell, every linear
\* node the descents reach is laid out at the width they read it with, and
\* every key inserted before is still found with its value
C22_Width ==
    (op = "cell" /\ "split" \in ev) =>
       /\ ~fault /\ ret # NULL
       /\ \A n \in LinearNodes(mem, judy[1]) : Packed(mem, n)
       /\ \A e \in ref : SlotKey(e.key).val = e.val

\* ------------------------------------------------------------------------
\* Span split
\* ------------------------------------------------------------------------
InitSpan == InitFor({"span", "spantail"})
SpecSpan == InitSpan /\ [][Next]_vars

\* C23: a cell(K2) that splits a span replaces it by a chain of linear-1
\* nodes holding exactly the span's bytes (no byte from beyond the payload)
\* with the span's child slot attached unchanged at its end: afterwards every
\* old key and K2 are found by slot with their values and reconstructed by
\* key, the traversal yields no other key, and no span was left half split
C23_SpanSplit ==
    (op = "cell" /\ "splitspan" \in ev) =>
       /\ ~fault /\ ret # NULL
       /\ \A e \in ref : SlotKey(e.key) = [ret |-> SlotKey(e.key).ret, val |-> e.val, key |-> e.key]
       /\ \A e \in ref : SlotKey(e.key).ret # NULL
       /\ Present = RefKeys
       /\ KeyOf(mem, judy[1]) = arg

\* ------------------------------------------------------------------------
\* The cell a cursor operation returns
\* ------------------------------------------------------------------------

\* C24: whenever end, nxt, prv or strt returns a cell, the returned address
\* is the cell of the key the cursor then identifies: the address slot(k)
\* returns for the key k that key reports, in both modes
C24_CursorCell ==
    (~fault /\ op \in {"end", "nxt", "prv", "strt"} /\ ret # NULL) =>
       ret = SlotKey(KeyOf(mem, judy[1])).ret

\* ------------------------------------------------------------------------
\* The node graph and the arena
\* ------------------------------------------------------------------------
\* the bytes of the block a node of type type is allocated from
BlockSize(type) == RoundUp(JudySize(EquivType(type)), 8)

\* the blocks of the trie of handle h: [ref, next, addr, size] for the node
\* that the slot at ref names, the inner tables of radix nodes included
Blocks(m, h) ==
    LET block(at, next) == [ref |-> at, next |-> next, addr |-> AddrOf(next),
                            size |-> BlockSize(TypeOf(next))]
    IN  {block(n.ref, n.next) : n \in Nodes(m, h)}
        \cup UNION {{block(AddrOf(n.next) + JUDY_slot_size * g,
                           RdSlot(m, AddrOf(n.next) + JUDY_slot_size * g))
                     : g \in {x \in 0 .. 15 :
                                RdSlot(m, AddrOf(n.next) + JUDY_slot_size * x) # 0}}
                    : n \in {x \in Nodes(m, h) : TypeOf(x.next) = JUDY_radix}}

\* the blocks on the reuse list of class type, from block p on: the list is
\* followed through the first slot of each block, for at most fuel blocks
RECURSIVE Chain(_, _, _)
Chain(m, p, fuel) ==
    IF p = NULL THEN <<>>
    ELSE IF fuel = 0 \/ p \notin DOMAIN m THEN <<-1>>
    ELSE <<p>> \o Chain(m, RdSlot(m, p), fuel - 1)

\* the longest reuse list followed: more blocks than the arena holds is a cycle
MaxChain == 90

\* the blocks on the reuse lists of handle h: [addr, size, type]
FreeBlocks(m, h) ==
    UNION {{[addr |-> Chain(m, h.reuse[t], MaxChain)[i], size |-> BlockSize(t), type |-> t]
            : i \in 1 .. Len(Chain(m, h.reuse[t], MaxChain))}
           : t \in JUDY_1 .. JUDY_max}

RECURSIVE SumSize(_)
SumSize(B) ==
    IF B = {} THEN 0 ELSE LET b == CHOOSE x \in B : TRUE IN b.size + SumSize(B \ {b})

\* blocks a and b share no byte
Disjoint(a, b) == a.addr + a.size <= b.addr \/ b.addr + b.size <= a.addr

\* block b lies in the part of a segment that was handed out for nodes
InArena(sg, h, b) ==
    \E i \in 1 .. Len(sg) :
       /\ SegAddr(i) + sg[i].next <= b.addr
       /\ b.addr + b.size <= (IF i = 1 THEN h.addr ELSE SegAddr(i) + JUDY_seg)

\* the bytes handed out for nodes so far
NodeBytes(sg, h) ==
    LET used[i \in 0 .. Len(sg)] == IF i = 0 THEN 0 ELSE used[i - 1] + (JUDY_seg - sg[i].next)
    IN  used[Len(sg)] - (SegAddr(1) + JUDY_seg - h.addr)

\* C25: the node graph is a strict tree with correct tags: every non-zero
\* child slot on a path from the root holds the 8-byte-aligned address of a
\* live node whose tag is its allocated type (the block of the tag's size
\* class lies in the handed-out arena and inner radix tables are tagged
\* radix), no two slots name overlapping nodes (no sharing, no cycle), and
\* every live node is named by a slot: the nodes of the tree and the blocks of
\* the reuse lists account for every byte handed out
C25_Tree ==
    ~fault =>
       \A B \in {Blocks(mem, judy[1])}, F \in {FreeBlocks(mem, judy[1])} :
          /\ \A b \in B : /\ b.addr # NULL /\ b.addr % 8 = 0
                          /\ InArena(segs, judy[1], b)
          /\ \A n \in Nodes(mem, judy[1]) : TypeOf(n.next) = JUDY_radix =>
                \A g \in 0 .. 15 :
                   TypeOf(RdSlot(mem, AddrOf(n.next) + JUDY_slot_size * g)) = JUDY_radix
          /\ \A a, b \in B : a.ref # b.ref => Disjoint(a, b)
          /\ SumSize(B) + SumSize(F) = NodeBytes(segs, judy[1])

C25_Witness ==
    /\ ~fault /\ op = "del" /\ Cardinality(ref) >= 2
    /\ \E n \in Nodes(mem, judy[1]) : TypeOf(n.next) = JUDY_radix
    /\ FreeBlocks(mem, judy[1]) # {}

\* the blocks on the reuse list of class t of handle h, in list order
ReuseList(m, h, t) == Chain(m, h.reuse[t], MaxChain)

\* judy_alloc of class t would cut a larger free block
CutsLarger(h, t) ==
    h.reuse[t] = NULL /\ \E i \in t + 1 .. JUDY_max : h.reuse[i] # NULL

\* the larger block judy_alloc of class t cuts
CutBlock(h, t) ==
    LET idx == SetMin({i \in t + 1 .. JUDY_max : h.reuse[i] # NULL})
    IN  [addr |-> h.reuse[idx], size |-> BlockSize(idx), type |-> idx]

\* C26: the reuse lists are well-formed and disjoint from live data: each
\* list is a finite null-terminated chain through the first slot of its
\* blocks, every block has the size of its class inside the handed-out arena,
\* no block is listed twice, listed blocks overlap neither each other nor a
\* node reachable from the root, and a break-down of a larger block returns
\* one block and lists fragments that together exactly tile the larger block
C26_ReuseLists ==
    ~fault =>
       \A B \in {Blocks(mem, judy[1])}, F \in {FreeBlocks(mem, judy[1])} :
          /\ \A t \in JUDY_1 .. JUDY_max :
                \A c \in {ReuseList(mem, judy[1], t)} :
                   /\ \A i \in 1 .. Len(c) : c[i] # -1
                   /\ \A i, k \in 1 .. Len(c) : i # k => c[i] # c[k]
          /\ \A f \in F : f.addr % 8 = 0 /\ InArena(segs, judy[1], f)
          /\ \A f, g \in F : f # g => Disjoint(f, g)
          /\ \A f \in F : \A b \in B : Disjoint(f, b)
          /\ \A t \in JUDY_1 .. JUDY_max - 1 : CutsLarger(judy[1], t) =>
                \A a \in {judy_alloc(S, 1, t, TRUE)}, cut \in {CutBlock(judy[1], t)} :
                   \A got \in {[addr |-> a.ptr, size |-> BlockSize(t), type |-> t]},
                      F1 \in {FreeBlocks(a.s.mem, a.s.judy[1])} :
                      /\ a.ptr = cut.addr
                      /\ F1 \ F # {}
                      /\ \A f \in F1 \ F :
                            /\ cut.addr <= f.addr /\ f.addr + f.size <= cut.addr + cut.size
                            /\ Disjoint(f, got)
                      /\ \A f, g \in F1 : f # g => Disjoint(f, g)
                      /\ SumSize(F1 \ F) + got.size = cut.size
                      /\ F \ F1 = {cut}

C26_Witness ==
    /\ ~fault /\ op = "cell" /\ "breakdown" \in ev
    /\ \E t \in JUDY_1 .. JUDY_max - 1 : CutsLarger(judy[1], t)
    /\ Cardinality(FreeBlocks(mem, judy[1])) >= 2

\* node n of memory m holds a child: a linear node an occupied position, a
\* radix node an inner table and every inner table an occupied slot, a span
\* its one child
NonEmpty(m, n) ==
    LET type == TypeOf(n.next)
        base == AddrOf(n.next)
    IN  CASE type = JUDY_radix ->
             /\ RadixHasInner(m, base)
             /\ \A g \in 0 .. 15 :
                   LET outer == RdSlot(m, base + JUDY_slot_size * g)
                   IN  outer # 0 =>
                          \E x \in 0 .. 15 : RdSlot(m, AddrOf(outer) + JUDY_slot_size * x) # 0
          [] type = JUDY_span -> RdSlot(m, SlotAddr(base + JudySize(JUDY_span), 0)) # 0
          [] OTHER ->
             \E i \in 0 .. LinCnt(JudySize(type), KeySize(n.off)) - 1 :
                RdSlot(m, SlotAddr(base + JudySize(type), i)) # 0

\* the addresses of a set of blocks
Addrs(B) == {b.addr : b \in B}

\* C27: del collapses emptied nodes: after any del no node reachable from the
\* root is empty (no linear node without an occupied child slot, no outer or
\* inner radix table all zero, no span without its child), and every node the
\* del took out of the tree is on the reuse list of its class, its parent
\* slot removed or zeroed
CollapseStep ==
    (op' = "del" /\ ~fault') =>
       /\ \A n \in Nodes(mem', judy'[1]) : NonEmpty(mem', n)
       /\ judy[1].level # 0 =>
             \A B1 \in {Blocks(mem', judy'[1])}, F1 \in {FreeBlocks(mem', judy'[1])} :
                \A b \in Blocks(mem, judy[1]) :
                   b.addr \notin Addrs(B1) =>
                      \E f \in F1 : f.addr = b.addr /\ f.type = EquivType(TypeOf(b.next))

C27_Collapse == [][CollapseStep]_vars

C27_Witness ==
    /\ op = "del" /\ ~fault /\ ret # NULL
    /\ \E t \in {JUDY_radix_equiv, JUDY_span_equiv} : judy[1].reuse[t] # NULL
    /\ \E n \in Nodes(mem, judy[1]) : TypeOf(n.next) = JUDY_radix

\* ------------------------------------------------------------------------
\* Clones and the handle they were taken from
\* ------------------------------------------------------------------------

\* C28: a clone observes the shared graph through the same root as the
\* original: whatever the original inserted or deleted after the clone was
\* taken, a full traversal on the clone yields exactly the original's
\* current key set
C28_CloneView ==
    (~fault /\ Len(judy) >= 2) =>
       KeySet(Forward(mem, judy[2])) = KeySet(Forward(mem, judy[1]))

\* ------------------------------------------------------------------------
\* Segment bump cursors
\* ------------------------------------------------------------------------
\* the bytes from address a on, n of them, lie in one segment above its header
\* and not below its bump cursor
Handed(sg, a, n) ==
    \E i \in 1 .. Len(sg) :
       /\ SegAddr(i) + SizeofJudySeg <= a
       /\ SegAddr(i) + sg[i].next <= a
       /\ a + n <= SegAddr(i) + JUDY_seg

\* C29: segment bump cursors never underflow: every segment's next stays
\* between the size of the segment header and 65536, and every region handed
\* out by judy_open, judy_alloc or judy_data (for any requested byte count,
\* judy_clone's request included) lies inside one segment and overlaps
\* neither the segment header nor another region
C29_Cursors ==
    /\ \A i \in 1 .. Len(segs) :
          SizeofJudySeg <= segs[i].next /\ segs[i].next <= JUDY_seg
    /\ ~fault =>
          /\ (op = "data" /\ ret # NULL) => Handed(segs, ret, JUDY_cache_line)
          /\ \A j \in 1 .. Len(judy) :
                Handed(segs, judy[j].addr, SizeofJudy + judy[j].max * SizeofJudyStack)
          /\ Apart(judy)
          /\ \A b \in Blocks(mem, judy[1]) \cup FreeBlocks(mem, judy[1]) :
                /\ Handed(segs, b.addr, b.size)
                /\ \A j \in 1 .. Len(judy) :
                      b.addr + b.size <= judy[j].addr
                      \/ judy[j].addr + SizeofJudy + judy[j].max * SizeofJudyStack <= b.addr

====
